---------------------------- MODULE Spec2Model ----------------------------
(***************************************************************************)
(* Night-Sight: the pipeline orchestrator (services/pipelineService.ts),   *)
(* the shared object detector (services/yoloDetection.ts) and the feature  *)
(* vector builder (services/featureExtraction.ts).                         *)
(*                                                                         *)
(* Real numbers are fixed-point integers.  Detection confidences and the   *)
(* metrics derived from them are in units of 1/1000; the entries of the    *)
(* feature vectors are in units of 1/Scale.                                *)
(***************************************************************************)
EXTENDS Integers, Sequences, FiniteSets, TLC

VARIABLES
    \* ---- runPipeline (one call) ----
    pc,                \* position of the async function between its awaits
    log,               \* what the run has done so far, in order
    observer,          \* TRUE iff the caller passed onProgress
    cvReady,           \* window.cv && window.cvIsReady
    cvPolls,           \* 100 ms sleeps spent in waitForOpenCV
    rawFeatures,       \* const rawFeatures
    enhancedFeatures,  \* const enhancedFeatures
    rawDetection,      \* const rawDetection
    enhancedDetection, \* const enhancedDetection
    result,            \* the PipelineResult the promise resolved with
    error,             \* the error the promise rejected with
    \* ---- ObjectDetector singleton (yoloDetector) ----
    model,             \* this.model: 0 is null, n > 0 the n-th assignment
    isLoading,         \* this.isLoading
    loadsStarted,      \* number of cocoSsd.load() calls made so far
    loadFailed,        \* TRUE once a cocoSsd.load() has rejected
    lm,                \* per client: state of its loadModel() call
    calls,             \* per other caller: loadModel() calls made so far
    \* ---- extractComprehensiveFeatures ----
    images,            \* per call: the decoded image (width, height, pixels)
    analysis,          \* per call: what the other analysers compute from it
    features,          \* per call: the value the promise resolved with
    comparison,        \* what comparing the two results gave
    \* ---- the analysers of featureExtraction.ts on one image ----
    sample,            \* the image data handed to the analysers
    measured,          \* what each analyser has returned so far
    \* ---- extractKeypoints on images of growing edge content ----
    imageComplexity,   \* const complexity, in units of 1/MeasureScale
    imageEdgeDensity,  \* const edgeDensity, in units of 1/MeasureScale
    keypointStats,     \* the KeypointStats returned
    \* ---- the keypoint comparison of processFeatures ----
    lowLightKeypoints, \* lowLight.keypoints
    enhancedKeypoints, \* enhanced.keypoints
    improvement,       \* comparison.keypoints.improvement
    \* ---- StepDatasetTraining and its ModelTrainer ----
    training,          \* the component's state 'training'
    worker,            \* this.worker: 0 is no trainer yet, n the n-th Worker
    attached,          \* the Workers whose onmessage has been assigned
    callbacks,         \* the train() call whose callbacks the trainer holds
    inbox,             \* TRAIN messages posted to the current Worker
    workerRun,         \* the train() call the Worker is simulating, or 0
    epoch,             \* epochs the Worker has reported of it
    outbox,            \* messages the current Worker has posted back
    runs,              \* train() calls made so far
    afterStop,         \* the train() calls made after a stop()
    stopped,           \* the train() calls ended by stop()
    progressCalls,     \* per train() call: progress callbacks invoked
    completed,         \* the train() calls whose completion callback ran
    \* ---- detectInVideoStream (one call) and its stop function ----
    streamPc,          \* where the call and its processFrame loop are
    stopFn,            \* the returned stop function: none, held or called
    playing,           \* the video plays and the stream's tracks are live
    sinceLast,         \* animation frames since lastProcessTime
    frameCount,        \* let frameCount
    detectCalls,       \* yoloDetector.detect calls started so far
    callsAfterStop,    \* those of them started after stop()
    reported,          \* those whose onFrameDetected and onProgress ran
    \* ---- ObjectDetector.applyNMS ----
    inputBoxes,        \* the BoundingBox[] passed to applyNMS
    selected,          \* the BoundingBox[] it returned
    \* ---- App (App.tsx) and the selection of StepProcess ----
    currentStep,       \* useState currentStep
    originalImages,    \* originalImages.length
    selectedResults,   \* selectedResults: the result ids, in order
    selectedResultIds, \* StepProcess's selectedResultIds
    history,           \* window.history: entries of state and hash
    position,          \* the entry the browser is at
    effectPending,     \* the navigation effect has yet to run
    lastEvent,         \* the handler that ran last and where it was headed
    \* ---- detectInVideo (one call) ----
    videoPc,           \* where the detectInVideo call is
    frameRateHalves,   \* config.frameRate, in halves of a frame per second
    maxFrames,         \* config.maxFrames, 0 when it is not given
    duration,          \* video.duration, in seconds
    framesToProcess,   \* const framesToProcess
    frameIndex,        \* the loop variable i
    processedCount,    \* let processedCount
    lastProgress,      \* the last value passed to onProgress, in percent
    \* ---- applyCompositeEnhancement and applyHistogramEqualization (one call) ----
    filter,            \* the function called: composite or histogram
    statement,         \* the statement of its try block to run next
    allocated,         \* the OpenCV objects created so far
    deletes,           \* per object: delete() calls made on it
    matsToDelete,      \* const matsToDelete
    exit,              \* running, the finally block under way, or how the call ended
    outputUrl,         \* TRUE iff a URL was returned
    \* ---- StepPipelineComparison ----
    imageUrl,          \* the prop imageUrl: the n-th URL, 0 before the mount
    effectUrl,         \* the imageUrl the effect last ran for
    processing,        \* useState processing
    pipelineProgress,  \* useState progress: the run that reported last, 0 is null
    displayedResult,   \* useState result, with the run that computed it
    displayedError,    \* useState error, with the run that failed
    inFlight,          \* the executePipeline calls waiting for runPipeline
    pipelineRuns,      \* executePipeline calls made so far
    \* ---- splitDataset ----
    dataset,           \* dataset.images, each image with the characters of its id
    trainRatio,        \* trainRatio, in hundredths
    valRatio,          \* valRatio, in hundredths
    testRatio,         \* testRatio, in hundredths
    splits,            \* what splitDataset returned
    splitsAgain        \* what a second call on the same dataset returned

pipelineVars == <<pc, log, observer, cvReady, cvPolls, rawFeatures,
                  enhancedFeatures, rawDetection, enhancedDetection,
                  result, error>>
detectorVars == <<model, isLoading, loadsStarted, loadFailed, lm, calls>>
featureVars == <<images, analysis, features, comparison>>
analyzerVars == <<sample, measured>>
keypointVars == <<imageComplexity, imageEdgeDensity, keypointStats>>
improvementVars == <<lowLightKeypoints, enhancedKeypoints, improvement>>
trainerVars == <<training, worker, attached, callbacks, inbox, workerRun,
                 epoch, outbox, runs, afterStop, stopped, progressCalls,
                 completed>>
streamVars == <<streamPc, stopFn, playing, sinceLast, frameCount, detectCalls,
                callsAfterStop, reported>>
nmsVars == <<inputBoxes, selected>>
appVars == <<currentStep, originalImages, selectedResults, selectedResultIds,
             history, position, effectPending, lastEvent>>
videoVars == <<videoPc, frameRateHalves, maxFrames, duration,
               framesToProcess, frameIndex, processedCount, lastProgress>>
enhanceVars == <<filter, statement, allocated, deletes, matsToDelete, exit,
                 outputUrl>>
compareVars == <<imageUrl, effectUrl, processing, pipelineProgress,
                 displayedResult, displayedError, inFlight, pipelineRuns>>
splitVars == <<dataset, trainRatio, valRatio, testRatio, splits, splitsAgain>>
vars == <<pipelineVars, detectorVars, featureVars, analyzerVars,
          keypointVars, improvementVars, trainerVars, streamVars, nmsVars,
          appVars, videoVars, enhanceVars, compareVars, splitVars>>

\* what the steps of one part of the program leave alone
besidesPipeline == <<featureVars, analyzerVars, keypointVars,
                     improvementVars, trainerVars, streamVars, nmsVars,
                     appVars, videoVars, enhanceVars, compareVars, splitVars>>
besidesFeatures == <<pipelineVars, detectorVars, analyzerVars, keypointVars,
                     improvementVars, trainerVars, streamVars, nmsVars,
                     appVars, videoVars, enhanceVars, compareVars, splitVars>>
besidesAnalyzers == <<pipelineVars, detectorVars, featureVars, keypointVars,
                      improvementVars, trainerVars, streamVars, nmsVars,
                      appVars, videoVars, enhanceVars, compareVars,
                      splitVars>>
besidesKeypoints == <<pipelineVars, detectorVars, featureVars, analyzerVars,
                      improvementVars, trainerVars, streamVars, nmsVars,
                      appVars, videoVars, enhanceVars, compareVars,
                      splitVars>>
besidesImprovement == <<pipelineVars, detectorVars, featureVars,
                        analyzerVars, keypointVars, trainerVars, streamVars,
                        nmsVars, appVars, videoVars, enhanceVars,
                        compareVars, splitVars>>
besidesTrainer == <<pipelineVars, detectorVars, featureVars, analyzerVars,
                    keypointVars, improvementVars, streamVars, nmsVars,
                    appVars, videoVars, enhanceVars, compareVars, splitVars>>
besidesStream == <<pipelineVars, detectorVars, featureVars, analyzerVars,
                   keypointVars, improvementVars, trainerVars, nmsVars,
                   appVars, videoVars, enhanceVars, compareVars, splitVars>>
besidesNms == <<pipelineVars, detectorVars, featureVars, analyzerVars,
                keypointVars, improvementVars, trainerVars, streamVars,
                appVars, videoVars, enhanceVars, compareVars, splitVars>>
besidesApp == <<pipelineVars, detectorVars, featureVars, analyzerVars,
                keypointVars, improvementVars, trainerVars, streamVars,
                nmsVars, videoVars, enhanceVars, compareVars, splitVars>>
besidesVideo == <<pipelineVars, detectorVars, featureVars, analyzerVars,
                  keypointVars, improvementVars, trainerVars, streamVars,
                  nmsVars, appVars, enhanceVars, compareVars, splitVars>>
besidesEnhance == <<pipelineVars, detectorVars, featureVars, analyzerVars,
                    keypointVars, improvementVars, trainerVars, streamVars,
                    nmsVars, appVars, videoVars, compareVars, splitVars>>
besidesCompare == <<pipelineVars, detectorVars, featureVars, analyzerVars,
                    keypointVars, improvementVars, trainerVars, streamVars,
                    nmsVars, appVars, videoVars, enhanceVars, splitVars>>
besidesSplit == <<pipelineVars, detectorVars, featureVars, analyzerVars,
                  keypointVars, improvementVars, trainerVars, streamVars,
                  nmsVars, appVars, videoVars, enhanceVars, compareVars>>

-----------------------------------------------------------------------------
(* Bounds *)

\* other components that share yoloDetector (StepFeatureExtraction, video)
NumCallers == 1
\* loadModel() calls each of them makes
MaxCalls == 2
\* sleeps of waitForOpenCV before Date.now() - start exceeds the timeout
TimeoutPolls == 1

Callers == 1..NumCallers
Pipeline == 0
Clients == {Pipeline} \cup Callers

-----------------------------------------------------------------------------
(* Log entries *)

Event(stage, progress, image) ==
    [kind |-> "event", name |-> stage, progress |-> progress, image |-> image]
Call(op) == [kind |-> "call", name |-> op, progress |-> 0, image |-> "null"]
Done(op) == [kind |-> "done", name |-> op, progress |-> 0, image |-> "null"]
Fail(op) == [kind |-> "fail", name |-> op, progress |-> 0, image |-> "null"]

\* the seven onProgress payloads of runPipeline
EvEnhancement == Event("enhancement", 10, "null")
EvFeaturesRaw == Event("feature_extraction", 30, "raw")
EvFeaturesEnhanced == Event("feature_extraction", 50, "enhanced")
EvDetectionRaw == Event("detection", 60, "raw")
\* stage 5 reporting a percentage below stage 4's
EvDetectionEnhancedLow == Event("detection", 40, "enhanced")
EvDetectionEnhanced == Event("detection", 80, "enhanced")
EvComparison == Event("comparison", 90, "null")
EvComplete == Event("complete", 100, "null")

\* if (onProgress) { onProgress(ev) }
Emit(l, ev) == IF observer THEN Append(l, ev) ELSE l


-----------------------------------------------------------------------------
(* ObjectDetector.loadModel, yoloDetection.ts *)

\* A client's loadModel() call: "idle" (no call made), "loading" (awaiting
\* cocoSsd.load), "waiting" (in the while (this.isLoading) sleep loop),
\* "returned" (promise resolved), "threw" (promise rejected).
LmStates == {"idle", "loading", "waiting", "returned", "threw"}

\* loadModel with the isLoading guard left out: every call made while the
\* model is null starts its own cocoSsd.load().
loadModelUnguarded(c) ==
    IF model # 0
    THEN /\ lm' = [lm EXCEPT ![c] = "returned"]
         /\ UNCHANGED <<model, isLoading, loadsStarted, loadFailed>>
    ELSE /\ isLoading' = TRUE
         /\ loadsStarted' = loadsStarted + 1
         /\ lm' = [lm EXCEPT ![c] = "loading"]
         /\ UNCHANGED <<model, loadFailed>>

\* The synchronous part of loadModel(), up to its first await.
loadModel(c) ==
    IF model # 0
    THEN \* if (this.model) return
         /\ lm' = [lm EXCEPT ![c] = "returned"]
         /\ UNCHANGED <<model, isLoading, loadsStarted, loadFailed>>
    ELSE IF isLoading
    THEN \* while (this.isLoading) await sleep(100); return
         /\ lm' = [lm EXCEPT ![c] = "waiting"]
         /\ UNCHANGED <<model, isLoading, loadsStarted, loadFailed>>
    ELSE \* this.isLoading = true; this.model = await cocoSsd.load(...)
         /\ isLoading' = TRUE
         /\ loadsStarted' = loadsStarted + 1
         /\ lm' = [lm EXCEPT ![c] = "loading"]
         /\ UNCHANGED <<model, loadFailed>>

\* cocoSsd.load() settles for the client that started it: the assignment (or
\* the rethrow) and the finally block run in one turn of the event loop.
ModelLoadSettles(c) ==
    /\ UNCHANGED besidesPipeline
    /\ lm[c] = "loading"
    /\ \E ok \in BOOLEAN :
         /\ model' = IF ok THEN model + 1 ELSE model
         /\ loadFailed' = (loadFailed \/ ~ok)
         /\ lm' = [lm EXCEPT ![c] = IF ok THEN "returned" ELSE "threw"]
    /\ isLoading' = FALSE
    /\ UNCHANGED <<loadsStarted, calls, pipelineVars>>

\* A waiting client's 100 ms timer fires and it re-tests this.isLoading; while
\* the flag is still set it sleeps again, which changes nothing.
WaitPoll(c) ==
    /\ UNCHANGED besidesPipeline
    /\ lm[c] = "waiting"
    /\ ~isLoading
    /\ lm' = [lm EXCEPT ![c] = "returned"]
    /\ UNCHANGED <<model, isLoading, loadsStarted, loadFailed, calls,
                   pipelineVars>>

\* Another component calls yoloDetector.loadModel().
CallerLoadModel(c) ==
    /\ UNCHANGED besidesPipeline
    /\ c \in Callers
    /\ lm[c] \in {"idle", "returned", "threw"}
    /\ calls[c] < MaxCalls
    /\ calls' = [calls EXCEPT ![c] = @ + 1]
    /\ loadModel(c)
    /\ UNCHANGED pipelineVars

-----------------------------------------------------------------------------
(* Detection results and metrics, metricsCalculation.ts *)

RECURSIVE SumSeq(_)
SumSeq(s) == IF s = <<>> THEN 0 ELSE Head(s) + SumSeq(Tail(s))

Min(a, b) == IF a < b THEN a ELSE b

\* the sum of f[lo], ..., f[hi]
RECURSIVE SumFn(_, _, _)
SumFn(f, lo, hi) ==
    IF lo > hi THEN 0
    ELSE IF lo = hi THEN f[lo]
    ELSE LET mid == (lo + hi) \div 2
         IN SumFn(f, lo, mid) + SumFn(f, mid + 1, hi)

Abs(a) == IF a < 0 THEN -a ELSE a

\* A BoundingBox as the metrics read it: its confidence (1/1000) and class.
Box(conf, class) == [confidence |-> conf, class |-> class]

\* The box lists model.detect() + filter + NMS may leave for an image.
BoxLists == { <<>>, <<Box(800, "car"), Box(400, "person")>> }

\* detect(): the DetectionResult of img.onload ...
Detected(boxes) == [boxes |-> boxes, imageWidth |-> 64, imageHeight |-> 64]
\* ... and the one img.onerror resolves with
DetectedNothing == [boxes |-> <<>>, imageWidth |-> 0, imageHeight |-> 0]

\* calculateDetectionMetrics: totalDetections and averageConfidence
averageConfidence(detections) ==
    IF Len(detections) = 0 THEN 0
    ELSE SumSeq([i \in 1..Len(detections) |-> detections[i].confidence])
             \div Len(detections)

\* calculateMetrics (the ground truth argument is not used by the code)
calculateMetrics(predictions) ==
    LET n == Len(predictions)
        avg == averageConfidence(predictions)
    IN [accuracy  |-> avg,
        precision |-> IF n > 0 THEN avg ELSE 0,
        recall    |-> IF n > 0 THEN Min(1000, (n * 1000) \div 10) ELSE 0,
        mAP       |-> (avg * 9) \div 10,
        mAP50     |-> avg,
        mAP75     |-> (avg * 8) \div 10]

-----------------------------------------------------------------------------
(* Feature results as extractComprehensiveFeatures builds them *)

\* resolve(null): img.onerror, or canvas.getContext('2d') gave no context
NullFeatures == [isNull |-> TRUE]

\* resolve(result): keypoints, texture and quality are the analyzers' own
\* records (KeypointStats, TextureFeatures, {brightness, contrast, sharpness});
\* percentages and quality values are in units of 1/1000.
FeatureResult(orb, fast, sift, hogSum, brightness, contrast, sharpness) ==
    [isNull |-> FALSE,
     keypoints |-> [orb |-> orb, fast |-> fast, sift |-> sift],
     texture |-> [hog |-> [descriptor |-> <<hogSum>>, bins |-> 9, cellSize |-> 8]],
     quality |-> [brightness |-> brightness, contrast |-> contrast,
                  sharpness |-> sharpness]]

DarkFeatures == FeatureResult(40, 100, 30, 400, 30000, 10000, 2000)
BrightFeatures == FeatureResult(60, 150, 40, 600, 120000, 40000, 6000)

\* what extractComprehensiveFeatures can resolve with, for the raw image and
\* for its enhanced version
ExtractOutcomes(image) ==
    {NullFeatures, IF image = "raw" THEN DarkFeatures ELSE BrightFeatures}

\* JavaScript's x.f: reading a property of undefined throws a TypeError
HasField(r, f) == f \in DOMAIN r

\* (enhanced - raw) / raw * 100 behind its raw > 0 guard, in 1/1000 percent
PercentImprovement(rawValue, enhancedValue) ==
    IF rawValue > 0
    THEN ((enhancedValue - rawValue) * 100000) \div rawValue
    ELSE 0

\* calculateFeatureImprovement, pipelineService.ts
calculateFeatureImprovement(raw, enhanced) ==
    IF raw.isNull \/ enhanced.isNull
    THEN [threw |-> FALSE, keypoints |-> 0, texture |-> 0, quality |-> 0]
    ELSE IF \/ ~HasField(raw.keypoints, "enhanced")
            \/ ~HasField(enhanced.keypoints, "enhanced")
            \/ ~HasField(raw.texture, "enhanced")
            \/ ~HasField(enhanced.texture, "enhanced")
            \/ ~HasField(raw.quality, "enhanced")
            \/ ~HasField(enhanced.quality, "enhanced")
    THEN \* raw.keypoints.enhanced is undefined: reading .orb of it throws
         [threw |-> TRUE, keypoints |-> 0, texture |-> 0, quality |-> 0]
    ELSE LET rk == raw.keypoints.enhanced
             ek == enhanced.keypoints.enhanced
             rq == raw.quality.enhanced
             eq == enhanced.quality.enhanced
         IN [threw |-> FALSE,
             keypoints |-> PercentImprovement(rk.orb + rk.fast + rk.sift,
                                              ek.orb + ek.fast + ek.sift),
             texture |-> PercentImprovement(
                             SumSeq(raw.texture.enhanced.hog.descriptor),
                             SumSeq(enhanced.texture.enhanced.hog.descriptor)),
             quality |-> PercentImprovement(
                             rq.brightness + rq.contrast + rq.sharpness,
                             eq.brightness + eq.contrast + eq.sharpness)]

\* the comparison block of runPipeline.  overallImprovement is kept times 10
\* (units of 1/10000) so that the weights 0.3 and 0.2 are the integers 3 and 2.
Comparison(fi, rawMetrics, enhancedMetrics, rawDet, enhDet) ==
    LET detectionImprovement ==
            [accuracy  |-> enhancedMetrics.accuracy - rawMetrics.accuracy,
             precision |-> enhancedMetrics.precision - rawMetrics.precision,
             recall    |-> enhancedMetrics.recall - rawMetrics.recall,
             mAP       |-> enhancedMetrics.mAP - rawMetrics.mAP,
             detectionCount |-> Len(enhDet.boxes) - Len(rawDet.boxes)]
    IN [featureImprovement |->
            [keypoints |-> fi.keypoints, texture |-> fi.texture,
             quality |-> fi.quality],
        detectionImprovement |-> detectionImprovement,
        overallImprovement10 |->
            fi.keypoints * 3 + fi.texture * 2 + fi.quality * 2
                + detectionImprovement.mAP * 3]

-----------------------------------------------------------------------------
(* runPipeline, pipelineService.ts *)

NoValue == [isSet |-> FALSE]

\* the work of a stage, started before its progress event is delivered
StartStageWorkFirst(l, ev, op) == Emit(Append(l, Call(op)), ev)

\* a stage begins: onProgress(ev) and then the call the stage awaits
StartStage(l, ev, op) == Append(Emit(l, ev), Call(op))

\* both detector calls issued together, without awaiting the first
CallDetectBoth(l) ==
    StartStage(Append(l, Call("detectRaw")), EvDetectionEnhanced, "detectEnhanced")

\* const rawDetection = await yoloDetector.detect(rawImageUrl): the call
CallDetectRaw(l) == Append(l, Call("detectRaw"))

\* a failed step invoked once more instead of rejecting
RetryAfterFailure(l, op) ==
    [pc |-> pc, log |-> Append(Append(l, Fail(op)), Call(op))]

\* an await that rejects, or a throw: the async function's promise rejects
\* and nothing after the failing statement runs
AfterFailure(l, op) == [pc |-> "rejected", log |-> Append(l, Fail(op))]

Reject(l, op, err) ==
    /\ pc' = AfterFailure(l, op).pc
    /\ log' = AfterFailure(l, op).log
    /\ error' = err

\* outcomes of yoloDetector.detect(url) once the model is there
DetectOutcomes ==
    {[kind |-> "ok", result |-> Detected(b)] : b \in BoxLists}
        \cup {[kind |-> "imgerror", result |-> DetectedNothing],
              [kind |-> "throw", result |-> DetectedNothing]}

\* detect(): if (!this.model) await this.loadModel()
DetectEntry(pcLoad, pcRun) ==
    IF model = 0
    THEN /\ loadModel(Pipeline)
         /\ pc' = pcLoad
    ELSE /\ pc' = pcRun
         /\ UNCHANGED <<model, isLoading, loadsStarted, loadFailed, lm>>

\* lines 151-169: the synchronous start, up to await waitForOpenCV()
RunPipeline ==
    /\ UNCHANGED besidesPipeline
    /\ pc = "idle"
    /\ log' = StartStage(log, EvEnhancement, "waitForOpenCV")
    /\ pc' = "waitCV"
    /\ UNCHANGED <<observer, cvReady, cvPolls, rawFeatures, enhancedFeatures,
                   rawDetection, enhancedDetection, result, error,
                   detectorVars>>

\* the page's OpenCV script finishes initialising
OpenCVBecomesReady ==
    /\ UNCHANGED besidesPipeline
    /\ ~cvReady
    /\ cvReady' = TRUE
    /\ UNCHANGED <<pc, log, observer, cvPolls, rawFeatures, enhancedFeatures,
                   rawDetection, enhancedDetection, result, error,
                   detectorVars>>

\* imageUtils.waitForOpenCV: one turn of its polling loop
WaitForOpenCV ==
    /\ UNCHANGED besidesPipeline
    /\ pc = "waitCV"
    /\ IF cvReady
       THEN /\ pc' = "loadRaw"
            /\ log' = Append(Append(log, Done("waitForOpenCV")), Call("loadImage"))
            /\ UNCHANGED <<cvPolls, error>>
       ELSE IF cvPolls >= TimeoutPolls
       THEN /\ Reject(log, "waitForOpenCV", "OpenCV initialization timed out")
            /\ UNCHANGED cvPolls
       ELSE /\ cvPolls' = cvPolls + 1
            /\ UNCHANGED <<pc, log, error>>
    /\ UNCHANGED <<observer, cvReady, rawFeatures, enhancedFeatures,
                   rawDetection, enhancedDetection, result, detectorVars>>

\* loadImage settles; on success applyCompositeEnhancement runs at once and
\* stage 2 begins (lines 170-191)
ImageLoaded ==
    /\ UNCHANGED besidesPipeline
    /\ pc = "loadRaw"
    /\ \E ok \in BOOLEAN, enhanced \in BOOLEAN :
         LET l1 == Append(Append(log, Done("loadImage")),
                          Call("applyCompositeEnhancement"))
         IN IF ~ok
            THEN enhanced /\ Reject(log, "loadImage", "image load error")
            ELSE IF ~enhanced
            THEN Reject(l1, "applyCompositeEnhancement", "enhancement error")
            ELSE /\ log' = StartStage(Append(l1, Done("applyCompositeEnhancement")),
                                      EvFeaturesRaw, "extractRaw")
                 /\ pc' = "extractRaw"
                 /\ UNCHANGED error
    /\ UNCHANGED <<observer, cvReady, cvPolls, rawFeatures, enhancedFeatures,
                   rawDetection, enhancedDetection, result, detectorVars>>

\* extractComprehensiveFeatures(rawImageUrl) resolves; stage 3 begins
RawFeaturesExtracted ==
    /\ UNCHANGED besidesPipeline
    /\ pc = "extractRaw"
    /\ \E f \in ExtractOutcomes("raw") :
         /\ rawFeatures' = f
         /\ log' = StartStage(
                       Append(log, IF f.isNull THEN Fail("extractRaw")
                                               ELSE Done("extractRaw")),
                       EvFeaturesEnhanced, "extractEnhanced")
    /\ pc' = "extractEnh"
    /\ UNCHANGED <<observer, cvReady, cvPolls, enhancedFeatures, rawDetection,
                   enhancedDetection, result, error, detectorVars>>

\* extractComprehensiveFeatures(enhancedUrl) resolves; stage 4 begins with
\* await yoloDetector.loadModel()
EnhancedFeaturesExtracted ==
    /\ UNCHANGED besidesPipeline
    /\ pc = "extractEnh"
    /\ \E f \in ExtractOutcomes("enhanced") :
         /\ enhancedFeatures' = f
         /\ log' = StartStage(
                       Append(log, IF f.isNull THEN Fail("extractEnhanced")
                                               ELSE Done("extractEnhanced")),
                       EvDetectionRaw, "loadModel")
    /\ pc' = "loadModel"
    /\ loadModel(Pipeline)
    /\ UNCHANGED <<observer, cvReady, cvPolls, rawFeatures, rawDetection,
                   enhancedDetection, result, error, calls>>

\* the awaited loadModel() settles; detect(rawImageUrl) is called
ModelReady ==
    /\ UNCHANGED besidesPipeline
    /\ pc = "loadModel"
    /\ lm[Pipeline] \in {"returned", "threw"}
    /\ IF lm[Pipeline] = "threw"
       THEN /\ Reject(log, "loadModel", "model load error")
            /\ UNCHANGED <<model, isLoading, loadsStarted, loadFailed, lm>>
       ELSE /\ log' = CallDetectRaw(Append(log, Done("loadModel")))
            /\ DetectEntry("detectRawLoad", "detectRaw")
            /\ UNCHANGED error
    /\ UNCHANGED <<observer, cvReady, cvPolls, rawFeatures, enhancedFeatures,
                   rawDetection, enhancedDetection, result, calls>>

\* detect(): the loadModel() it awaited settles; if (!this.model) throw
DetectModelReady ==
    /\ UNCHANGED besidesPipeline
    /\ pc \in {"detectRawLoad", "detectEnhLoad"}
    /\ lm[Pipeline] \in {"returned", "threw"}
    /\ LET op == IF pc = "detectRawLoad" THEN "detectRaw" ELSE "detectEnhanced"
       IN IF lm[Pipeline] = "threw"
          THEN Reject(log, op, "model load error")
          ELSE IF model = 0
          THEN Reject(log, op, "Failed to load detection model")
          ELSE /\ pc' = IF pc = "detectRawLoad" THEN "detectRaw" ELSE "detectEnh"
               /\ UNCHANGED <<log, error>>
    /\ UNCHANGED <<observer, cvReady, cvPolls, rawFeatures, enhancedFeatures,
                   rawDetection, enhancedDetection, result, detectorVars>>

\* detect(rawImageUrl) settles; stage 5 begins with detect(enhancedUrl)
RawDetected ==
    /\ UNCHANGED besidesPipeline
    /\ pc = "detectRaw"
    /\ \E o \in DetectOutcomes :
         IF o.kind = "throw"
         THEN /\ Reject(log, "detectRaw", "detection error")
              /\ UNCHANGED <<rawDetection, model, isLoading, loadsStarted,
                             loadFailed, lm>>
         ELSE /\ rawDetection' = o.result
              /\ log' = StartStage(
                            Append(log, IF o.kind = "imgerror"
                                        THEN Fail("detectRaw")
                                        ELSE Done("detectRaw")),
                            EvDetectionEnhanced, "detectEnhanced")
              /\ DetectEntry("detectEnhLoad", "detectEnh")
              /\ UNCHANGED error
    /\ UNCHANGED <<observer, cvReady, cvPolls, rawFeatures, enhancedFeatures,
                   enhancedDetection, result, calls>>

\* detect(enhancedUrl) settles; stage 6 begins with await import(...)
EnhancedDetected ==
    /\ UNCHANGED besidesPipeline
    /\ pc = "detectEnh"
    /\ \E o \in DetectOutcomes :
         IF o.kind = "throw"
         THEN /\ Reject(log, "detectEnhanced", "detection error")
              /\ UNCHANGED enhancedDetection
         ELSE /\ enhancedDetection' = o.result
              /\ log' = Emit(Append(log, IF o.kind = "imgerror"
                                         THEN Fail("detectEnhanced")
                                         ELSE Done("detectEnhanced")),
                             EvComparison)
              /\ pc' = "comparison"
              /\ UNCHANGED error
    /\ UNCHANGED <<observer, cvReady, cvPolls, rawFeatures, enhancedFeatures,
                   rawDetection, result, detectorVars>>

\* lines 249-322: metrics, improvements, the result and the last event
Compare ==
    /\ UNCHANGED besidesPipeline
    /\ pc = "comparison"
    /\ LET rawMetrics == calculateMetrics(rawDetection.boxes)
           enhancedMetrics == calculateMetrics(enhancedDetection.boxes)
           fi == calculateFeatureImprovement(rawFeatures, enhancedFeatures)
           l1 == Append(Append(Append(log, Call("calculateMetrics")),
                               Done("calculateMetrics")),
                        Call("calculateFeatureImprovement"))
       IN IF fi.threw
          THEN /\ Reject(l1, "calculateFeatureImprovement", "TypeError")
               /\ UNCHANGED result
          ELSE /\ result' =
                     [raw |-> [features |-> rawFeatures,
                               detection |-> rawDetection,
                               metrics |-> rawMetrics],
                      enhanced |-> [features |-> enhancedFeatures,
                                    detection |-> enhancedDetection,
                                    metrics |-> enhancedMetrics],
                      comparison |-> Comparison(fi, rawMetrics, enhancedMetrics,
                                                rawDetection, enhancedDetection)]
               /\ log' = Emit(Append(l1, Done("calculateFeatureImprovement")),
                              EvComplete)
               /\ pc' = "resolved"
               /\ UNCHANGED error
    /\ UNCHANGED <<observer, cvReady, cvPolls, rawFeatures, enhancedFeatures,
                   rawDetection, enhancedDetection, detectorVars>>

-----------------------------------------------------------------------------
(* Feature extraction, featureExtraction.ts.                               *)
(* Feature values are fixed-point numbers in units of 1/Scale; the entries *)
(* of a fused (normalised) vector are in units of 1/FusedScale.            *)

Scale == 100
FusedScale == 10000

\* program constants of computeHOG, computeLBP and constructFeatureVector
cellSize == 8
bins == 9
hogLimit == 100
patterns == 256
hogSlice == 20
lbpSlice == 20

\* image sizes <<width, height>> and pixel contents of the inputs
Dims == { <<3, 3>>, <<16, 16>>, <<17, 17>>, <<25, 17>>, <<33, 17>>, <<48, 33>> }
Contents == {"flat", "ramp", "checker"}
Images == { [width |-> d[1], height |-> d[2], content |-> c] :
                d \in Dims, c \in Contents }

\* data[idx], data[idx + 1], data[idx + 2] of pixel (x, y): a grey image
Channel(img, x, y) ==
    CASE img.content = "flat" -> 128
      [] img.content = "ramp" -> 40 + ((3 * x + 5 * y) % 64)
      [] img.content = "checker" ->
             IF ((x \div 2) + (y \div 2)) % 2 = 0 THEN 100 ELSE 160

\* getGrayValue: 0.299 R + 0.587 G + 0.114 B
getGrayValue(img, x, y) ==
    (299 * Channel(img, x, y) + 587 * Channel(img, x, y)
        + 114 * Channel(img, x, y)) \div 1000

\* Math.sqrt on integers: the largest r with r * r <= n
RECURSIVE IsqrtIter(_, _, _)
IsqrtIter(n, lo, hi) ==
    IF lo >= hi THEN lo
    ELSE LET mid == (lo + hi + 1) \div 2
         IN IF mid * mid <= n THEN IsqrtIter(n, mid, hi)
                              ELSE IsqrtIter(n, lo, mid - 1)
Isqrt(n) == IsqrtIter(n, 0, IF n < 65536 THEN Min(n, 255) ELSE 46340)

\* v.reduce((sum, val) => sum + val * val, 0), over the entries lo..hi
RECURSIVE SumSquares(_, _, _)
SumSquares(v, lo, hi) ==
    IF lo > hi THEN 0
    ELSE IF lo = hi THEN v[lo] * v[lo]
    ELSE LET mid == (lo + hi) \div 2
         IN SumSquares(v, lo, mid) + SumSquares(v, mid + 1, hi)

\* sqrt(v.reduce((sum, val) => sum + val * val, 0))
L2Norm(v) == Isqrt(SumSquares(v, 1, Len(v)))

\* v.map(val => val / norm), the quotients in units of 1/scale
DivideAll(v, scale, norm) ==
    [i \in 1..Len(v) |-> IF norm = 0 THEN 0 ELSE (v[i] * scale) \div norm]

\* v.map(val => val / norm) with norm = L2Norm(v) + 1e-6, the quotients in
\* units of 1/scale.  The 1e-6 is below the fixed-point resolution: what it
\* does is make the quotient of a zero vector 0 instead of 0/0.
Normalize(v, scale) == DivideAll(v, scale, L2Norm(v))

\* Array.prototype.slice(0, n)
Slice(s, n) == SubSeq(s, 1, Min(n, Len(s)))

\* sin and cos of 20k degrees, times 1000
Sin1000(k) == CASE k \in {1, 8} -> 342 [] k \in {2, 7} -> 643
                [] k \in {3, 6} -> 866 [] k \in {4, 5} -> 985
Cos1000(k) == CASE k = 1 -> 940 [] k = 2 -> 766 [] k = 3 -> 500 [] k = 4 -> 174
                [] k = 5 -> -174 [] k = 6 -> -500 [] k = 7 -> -766 [] k = 8 -> -940

\* Math.floor(((Math.atan2(gy, gx) * 180 / PI + 180) % 180) / (180 / bins)) % bins:
\* the unsigned orientation of (gx, gy) lies in bin k iff it has passed
\* exactly k of the bin boundaries 20, 40, ..., 160 degrees
OrientationBin(gx, gy) ==
    IF gy = 0 THEN 0
    ELSE LET ux == IF gy < 0 THEN -gx ELSE gx
             uy == IF gy < 0 THEN -gy ELSE gy
         IN Cardinality({k \in 1..(bins - 1) :
                            ux * Sin1000(k) <= uy * Cos1000(k)}) % bins

\* computeHOG, lines 256-272: what pixel k of the cell at (x, y) adds to
\* cellHistogram[b], where cy = k \div cellSize and cx = k % cellSize
pixelVote(img, x, y, k, b) ==
    LET py == y + (k \div cellSize)
        px == x + (k % cellSize)
    IN IF py > 0 /\ py < img.height - 1 /\ px > 0 /\ px < img.width - 1
       THEN LET gx == getGrayValue(img, px + 1, py)
                          - getGrayValue(img, px - 1, py)
                gy == getGrayValue(img, px, py + 1)
                          - getGrayValue(img, px, py - 1)
            IN IF OrientationBin(gx, gy) = b
               THEN Isqrt(gx * gx + gy * gy)
               ELSE 0
       ELSE 0

\* cellHistogram[b] += magnitude, over the pixels lo..hi of the cell
RECURSIVE binSum(_, _, _, _, _, _)
binSum(img, x, y, b, lo, hi) ==
    IF lo = hi THEN pixelVote(img, x, y, lo, b)
    ELSE LET mid == (lo + hi) \div 2
         IN binSum(img, x, y, b, lo, mid) + binSum(img, x, y, b, mid + 1, hi)

\* computeHOG, lines 251-274: the histogram of the cell at (x, y)
cellHistogram(img, x, y) ==
    [b \in 1..bins |-> binSum(img, x, y, b - 1, 0, cellSize * cellSize - 1)]

\* the number of turns of for (v = cellSize; v < limit; v += cellSize)
CellCount(limit) == IF limit <= cellSize THEN 0 ELSE (limit - 1) \div cellSize

\* computeHOG, lines 249-278: descriptor after the first c cells, row by row
RECURSIVE pushCells(_, _)
pushCells(img, c) ==
    IF c = 0 THEN <<>>
    ELSE LET perRow == CellCount(img.width - cellSize)
             y == cellSize * (((c - 1) \div perRow) + 1)
             x == cellSize * (((c - 1) % perRow) + 1)
         IN pushCells(img, c - 1)
                \o cellHistogram(img, x, y)

\* computeHOG, lines 239-289
computeHOG(img) ==
    LET nCells == CellCount(img.height - cellSize) * CellCount(img.width - cellSize)
        descriptor == pushCells(img, nCells)
    IN [descriptor |-> Slice(Normalize(descriptor, Scale), hogLimit),
        bins |-> bins,
        cellSize |-> cellSize]

\* outputs of the analysers that are not computed from the pixels here:
\* extractKeypoints, computeLBP, computeGLCM, extractStatisticalFeatures and
\* analyzeImageQuality, with the shapes and lengths the code gives them
Analysis(orb, fast, sift, lbpLow, contrast, hu, mean, std) ==
    [keypoints |-> [orb |-> orb, fast |-> fast, sift |-> sift],
     lbp |-> [histogram |-> [i \in 1..patterns |->
                                IF i = patterns THEN Scale - 19 * lbpLow
                                ELSE IF i < 20 THEN lbpLow ELSE 0],
              patterns |-> patterns,
              radius |-> 1],
     glcm |-> [contrast |-> contrast, dissimilarity |-> contrast \div 4,
               homogeneity |-> 80, energy |-> 25, correlation |-> 90,
               asm |-> 6],
     statistical |-> [huMoments |-> hu,
                      colorMoments |-> [mean |-> mean, std |-> std,
                                        skewness |-> <<0, 0, 0>>]],
     quality |-> [brightness |-> mean[1], contrast |-> std[1], sharpness |-> orb]]

DarkAnalysis ==
    Analysis(40, 100, 30, 2, 1200, <<17, 1, 2, 3, 0, 0, 0>>,
             <<3000, 2800, 3500>>, <<1000, 900, 1100>>)
BrightAnalysis ==
    Analysis(60, 150, 40, 3, 4800, <<21, 2, 4, 5, 0, 0, 1>>,
             <<12000, 11500, 11000>>, <<4000, 3800, 3600>>)
Analyses == {DarkAnalysis, BrightAnalysis}

\* a faulty builder: the statistical entries are fused before the texture ones
constructFeatureVectorStatFirst(keypoints, texture, statistical) ==
    LET keypointVec == <<keypoints.orb * Scale, keypoints.fast * Scale,
                         keypoints.sift * Scale>>
        textureVec == Slice(texture.hog.descriptor, hogSlice)
                          \o Slice(texture.lbp.histogram, lbpSlice)
                          \o <<texture.glcm.contrast, texture.glcm.energy,
                               texture.glcm.homogeneity>>
        statVec == statistical.huMoments \o statistical.colorMoments.mean
                       \o statistical.colorMoments.std
        fused == keypointVec \o statVec \o textureVec
        normalized == Normalize(fused, FusedScale)
    IN [keypoints |-> keypointVec,
        texture |-> textureVec,
        statistical |-> statVec,
        fused |-> normalized,
        dimensionality |-> Len(normalized)]

\* constructFeatureVector, lines 559-597
constructFeatureVector(keypoints, texture, statistical) ==
    LET keypointVec == <<keypoints.orb * Scale, keypoints.fast * Scale,
                         keypoints.sift * Scale>>
        textureVec == Slice(texture.hog.descriptor, hogSlice)
                          \o Slice(texture.lbp.histogram, lbpSlice)
                          \o <<texture.glcm.contrast, texture.glcm.energy,
                               texture.glcm.homogeneity>>
        statVec == statistical.huMoments \o statistical.colorMoments.mean
                       \o statistical.colorMoments.std
        fused == keypointVec \o textureVec \o statVec
        normalized == Normalize(fused, FusedScale)
    IN [keypoints |-> keypointVec,
        texture |-> textureVec,
        statistical |-> statVec,
        fused |-> normalized,
        dimensionality |-> Len(normalized)]

\* const hog = computeHOG(data, width, height), worked out once per image
hog == [img \in Images |-> computeHOG(img)]

\* extractTextureFeatures
extractTextureFeatures(img, an) ==
    [hog |-> hog[img], lbp |-> an.lbp, glcm |-> an.glcm]

\* the value extractComprehensiveFeatures resolves with from img.onload
ComprehensiveFeatureResult(img, an) ==
    LET textureFeatures == extractTextureFeatures(img, an)
    IN [isNull |-> FALSE,
        imageSize |-> [width |-> img.width, height |-> img.height],
        keypoints |-> an.keypoints,
        texture |-> textureFeatures,
        statistical |-> an.statistical,
        quality |-> an.quality,
        featureVector |-> constructFeatureVector(an.keypoints, textureFeatures,
                                                 an.statistical)]

\* the images extractComprehensiveFeatures is called on, one after the other
ImageIds == {1, 2}

\* extractComprehensiveFeatures(imageUrl) settles: img.onload builds the
\* result, img.onerror resolves null
ExtractFeatures(i) ==
    /\ features[i] = NoValue
    /\ \A j \in ImageIds : j < i => features[j] # NoValue
    /\ \E loaded \in BOOLEAN :
           features' = [features EXCEPT ![i] =
                           IF loaded
                           THEN ComprehensiveFeatureResult(images[i], analysis[i])
                           ELSE NullFeatures]
    /\ UNCHANGED <<images, analysis, comparison, besidesFeatures>>

\* Math.round(similarity * 10000) / 10000 and
\* Math.round(euclideanDistance * 100) / 100
SimilarityScale == 10000
DistanceScale == 100

\* compareFeatureVectors, lines 656-690.  The sums are over the first
\* min(length) entries; the quotient's 1e-6 makes 0 / 0 a 0.  No path of the
\* function throws.
compareFeatureVectors(vec1, vec2) ==
    LET n == Min(Len(vec1.fused), Len(vec2.fused))
        dotProduct == SumFn([i \in 1..n |-> vec1.fused[i] * vec2.fused[i]], 1, n)
        norm1 == SumFn([i \in 1..n |-> vec1.fused[i] * vec1.fused[i]], 1, n)
        norm2 == SumFn([i \in 1..n |-> vec2.fused[i] * vec2.fused[i]], 1, n)
        \* sqrt(norm1) * sqrt(norm2), in units of 1/FusedScale
        norms == Isqrt((norm1 \div FusedScale) * (norm2 \div FusedScale))
        sumSquares == SumFn([i \in 1..n |->
                                (vec1.fused[i] - vec2.fused[i])
                                    * (vec1.fused[i] - vec2.fused[i])], 1, n)
        Total(v) == SumFn(v, 1, Len(v))
    IN [error |-> "none",
        similarity |-> IF norms = 0 THEN 0
                       ELSE ((dotProduct \div FusedScale) * SimilarityScale)
                                \div norms,
        euclideanDistance |-> (Isqrt(sumSquares) * DistanceScale) \div FusedScale,
        changes |->
            [keypointChange |-> [i \in 1..Len(vec2.keypoints) |->
                                    vec2.keypoints[i] - vec1.keypoints[i]],
             textureChange |-> Abs(Total(vec2.texture) - Total(vec1.texture)),
             statisticalChange |-> Abs(Total(vec2.statistical)
                                           - Total(vec1.statistical))]]

\* if (lowLight && enhanced): the two results are compared.  vectors is what
\* compareFeatureVectors returns, improvement what calculateFeatureImprovement
\* makes of the same two results.
CompareExtracted ==
    /\ comparison = NoValue
    /\ \A i \in ImageIds : "featureVector" \in DOMAIN features[i]
    /\ comparison' =
           [vectors |-> compareFeatureVectors(features[1].featureVector,
                                              features[2].featureVector),
            improvement |-> calculateFeatureImprovement(features[1], features[2])]
    /\ UNCHANGED <<images, analysis, features, besidesFeatures>>

-----------------------------------------------------------------------------
(* The pipeline and the detector's other callers *)

\* no feature extraction under way: the state the pipeline runs beside
FeaturesIdle ==
    /\ images = [i \in ImageIds |-> [width |-> 3, height |-> 3, content |-> "flat"]]
    /\ analysis = [i \in ImageIds |-> DarkAnalysis]
    /\ features = [i \in ImageIds |-> NoValue]
    /\ comparison = NoValue

\* no analyser at work
AnalyzersIdle ==
    /\ sample = [width |-> 1, height |-> 1, content |-> "flat"]
    /\ measured = [a \in {"keypoints", "lbp", "glcm", "statistical", "quality"} |->
                      NoValue]

\* extractKeypoints not called
KeypointsIdle ==
    /\ imageComplexity = 0
    /\ imageEdgeDensity = 0
    /\ keypointStats = NoValue

\* no pair of results compared by processFeatures
ImprovementIdle ==
    /\ lowLightKeypoints = [orb |-> 30, fast |-> 80, sift |-> 20]
    /\ enhancedKeypoints = [orb |-> 30, fast |-> 80, sift |-> 20]
    /\ improvement = NoValue

\* the training step not opened: no ModelTrainer constructed
MaxRuns == 3
TrainerIdle ==
    /\ training = FALSE
    /\ worker = 0
    /\ attached = {}
    /\ callbacks = 0
    /\ inbox = <<>>
    /\ workerRun = 0
    /\ epoch = 0
    /\ outbox = <<>>
    /\ runs = 0
    /\ afterStop = {}
    /\ stopped = {}
    /\ progressCalls = [r \in 1..MaxRuns |-> 0]
    /\ completed = {}

\* detectInVideoStream not called
StreamIdle ==
    /\ streamPc = "idle"
    /\ stopFn = "none"
    /\ playing = FALSE
    /\ sinceLast = 0
    /\ frameCount = 0
    /\ detectCalls = 0
    /\ callsAfterStop = {}
    /\ reported = {}

\* applyNMS not called
NmsIdle ==
    /\ inputBoxes = <<>>
    /\ selected = NoValue

\* the app not mounted
AppIdle ==
    /\ currentStep = "UPLOAD"
    /\ originalImages = 0
    /\ selectedResults = <<>>
    /\ selectedResultIds = {}
    /\ history = <<[state |-> "none", hash |-> ""]>>
    /\ position = 1
    /\ effectPending = FALSE
    /\ lastEvent = [kind |-> "none", target |-> "UPLOAD"]

\* detectInVideo not called
VideoIdle ==
    /\ videoPc = "idle"
    /\ frameRateHalves = 2
    /\ maxFrames = 0
    /\ duration = 0
    /\ framesToProcess = NoValue
    /\ frameIndex = 0
    /\ processedCount = 0
    /\ lastProgress = 0

\* no enhancement called
EnhanceIdle ==
    /\ filter = "composite"
    /\ statement = 1
    /\ allocated = {}
    /\ deletes = <<>>
    /\ matsToDelete = <<>>
    /\ exit = "idle"
    /\ outputUrl = FALSE

\* StepPipelineComparison is not mounted
CompareIdle ==
    /\ imageUrl = 0
    /\ effectUrl = 0
    /\ processing = FALSE
    /\ pipelineProgress = 0
    /\ displayedResult = NoValue
    /\ displayedError = NoValue
    /\ inFlight = {}
    /\ pipelineRuns = 0

\* splitDataset is not called
SplitIdle ==
    /\ dataset = <<>>
    /\ trainRatio = 0
    /\ valRatio = 0
    /\ testRatio = 0
    /\ splits = NoValue
    /\ splitsAgain = NoValue

Init ==
    /\ pc = "idle"
    /\ log = <<>>
    /\ observer \in BOOLEAN
    /\ cvReady \in BOOLEAN
    /\ cvPolls = 0
    /\ rawFeatures = NoValue
    /\ enhancedFeatures = NoValue
    /\ rawDetection = NoValue
    /\ enhancedDetection = NoValue
    /\ result = NoValue
    /\ error = "none"
    /\ model = 0
    /\ isLoading = FALSE
    /\ loadsStarted = 0
    /\ loadFailed = FALSE
    /\ lm = [c \in Clients |-> "idle"]
    /\ calls = [c \in Callers |-> 0]
    /\ FeaturesIdle
    /\ AnalyzersIdle
    /\ KeypointsIdle
    /\ ImprovementIdle
    /\ TrainerIdle
    /\ StreamIdle
    /\ NmsIdle
    /\ AppIdle
    /\ VideoIdle
    /\ EnhanceIdle
    /\ CompareIdle
    /\ SplitIdle

Next ==
    \/ RunPipeline
    \/ OpenCVBecomesReady
    \/ WaitForOpenCV
    \/ ImageLoaded
    \/ RawFeaturesExtracted
    \/ EnhancedFeaturesExtracted
    \/ ModelReady
    \/ DetectModelReady
    \/ RawDetected
    \/ EnhancedDetected
    \/ Compare
    \/ \E c \in Callers : CallerLoadModel(c)
    \/ \E c \in Clients : ModelLoadSettles(c)
    \/ \E c \in Clients : WaitPoll(c)

Spec == Init /\ [][Next]_vars

\* extractComprehensiveFeatures called on each image of a selection in turn
PipelineIdle ==
    /\ pc = "idle"
    /\ log = <<>>
    /\ observer = FALSE
    /\ cvReady = FALSE
    /\ cvPolls = 0
    /\ rawFeatures = NoValue
    /\ enhancedFeatures = NoValue
    /\ rawDetection = NoValue
    /\ enhancedDetection = NoValue
    /\ result = NoValue
    /\ error = "none"
    /\ model = 0
    /\ isLoading = FALSE
    /\ loadsStarted = 0
    /\ loadFailed = FALSE
    /\ lm = [c \in Clients |-> "idle"]
    /\ calls = [c \in Callers |-> 0]

InitFeatures ==
    /\ PipelineIdle
    /\ images \in [ImageIds -> Images]
    /\ analysis \in [ImageIds -> Analyses]
    /\ features = [i \in ImageIds |-> NoValue]
    /\ comparison = NoValue
    /\ AnalyzersIdle
    /\ KeypointsIdle
    /\ ImprovementIdle
    /\ TrainerIdle
    /\ StreamIdle
    /\ NmsIdle
    /\ AppIdle
    /\ VideoIdle
    /\ EnhanceIdle
    /\ CompareIdle
    /\ SplitIdle

NextFeatures ==
    \/ \E i \in ImageIds : ExtractFeatures(i)
    \/ CompareExtracted

SpecFeatures == InitFeatures /\ [][NextFeatures]_vars

-----------------------------------------------------------------------------
(* The analysers of featureExtraction.ts, computed from the pixels.        *)
(* A JavaScript number is a record: a finite value in fixed point, NaN or  *)
(* an infinity.                                                            *)

Finite(v) == [kind |-> "finite", v |-> v]
NaN == [kind |-> "NaN", v |-> 0]
Infinity(sign) == [kind |-> "Infinity", v |-> sign]
IsFinite(n) == n.kind = "finite"

\* num / den in units of 1/scale: 0/0 is NaN, x/0 an infinity
Divide(num, den, scale) ==
    IF den = 0
    THEN IF num = 0 THEN NaN ELSE Infinity(IF num > 0 THEN 1 ELSE -1)
    ELSE IF den > 0 THEN Finite((num * scale) \div den)
    ELSE Finite(((-num) * scale) \div (-den))

\* Math.round((num / den) * scale) / scale in units of 1/scale
RoundedQuotient(num, den, scale) ==
    IF den = 0
    THEN IF num = 0 THEN NaN ELSE Infinity(IF num > 0 THEN 1 ELSE -1)
    ELSE IF den > 0 THEN Finite((2 * num * scale + den) \div (2 * den))
    ELSE Finite((2 * (-num) * scale - den) \div (2 * (-den)))

\* sizes of the images handed to the analysers; 1 and 2 are the tiny ones
AnalyzerSizes == {1, 2, 3, 5, 8}
Samples == { [width |-> w, height |-> h, content |-> c] :
                w \in AnalyzerSizes, h \in AnalyzerSizes, c \in Contents }

\* x < width - 1 && x > 0 && y > 0 && y < height - 1
Interior(img, x, y) == x > 0 /\ x < img.width - 1 /\ y > 0 /\ y < img.height - 1

\* units of the quality metrics (two decimals) and of complexity and edge
\* density
QualityScale == 100
MeasureScale == 1000

\* analyzeImageQuality, lines 515-554
analyzeImageQuality(img) ==
    LET pixelCount == img.width * img.height
        gray == [k \in 0..(pixelCount - 1) |->
                    getGrayValue(img, k % img.width, k \div img.width)]
        lap == [k \in 0..(pixelCount - 1) |->
                   LET x == k % img.width
                       y == k \div img.width
                   IN IF Interior(img, x, y)
                      THEN Abs(getGrayValue(img, x - 1, y) + getGrayValue(img, x + 1, y)
                                   + getGrayValue(img, x, y - 1)
                                   + getGrayValue(img, x, y + 1) - 4 * gray[k])
                      ELSE 0]
        sum == SumFn(gray, 0, pixelCount - 1)
        sqSum == SumFn([k \in 0..(pixelCount - 1) |-> gray[k] * gray[k]],
                       0, pixelCount - 1)
        sharpness == SumFn(lap, 0, pixelCount - 1)
    IN [brightness |-> RoundedQuotient(sum, pixelCount, QualityScale),
        \* sqrt(sqSum / n - (sum / n)^2) = sqrt(n * sqSum - sum^2) / n
        contrast |-> RoundedQuotient(Isqrt(pixelCount * sqSum - sum * sum),
                                     pixelCount, QualityScale),
        sharpness |-> RoundedQuotient(sharpness,
                                      (img.width - 2) * (img.height - 2),
                                      QualityScale)]

\* const threshold = 30
threshold == 30

\* calculateImageComplexity, lines 612-633
calculateImageComplexity(img) ==
    LET pixelCount == img.width * img.height
        edge == [k \in 0..(pixelCount - 1) |->
                    LET x == k % img.width
                        y == k \div img.width
                    IN IF x < img.width - 1 /\ y < img.height - 1
                          /\ (\/ Abs(getGrayValue(img, x, y)
                                         - getGrayValue(img, x + 1, y)) > threshold
                              \/ Abs(getGrayValue(img, x, y)
                                         - getGrayValue(img, x, y + 1)) > threshold)
                       THEN 1 ELSE 0]
        edgeCount == SumFn(edge, 0, pixelCount - 1)
    IN Divide(edgeCount, pixelCount, MeasureScale)

\* calculateEdgeDensity, lines 635-651
calculateEdgeDensity(img) ==
    LET pixelCount == img.width * img.height
        strength == [k \in 0..(pixelCount - 1) |->
                        LET x == k % img.width
                            y == k \div img.width
                        IN IF Interior(img, x, y)
                           THEN LET gx == getGrayValue(img, x + 1, y)
                                              - getGrayValue(img, x - 1, y)
                                    gy == getGrayValue(img, x, y + 1)
                                              - getGrayValue(img, x, y - 1)
                                IN Isqrt(gx * gx + gy * gy)
                           ELSE 0]
        edgeStrength == SumFn(strength, 0, pixelCount - 1)
    IN Divide(edgeStrength, (img.width - 2) * (img.height - 2) * 255,
              MeasureScale)

\* Math.floor(base + complexity * perComplexity + edgeDensity * perEdge)
FlooredAffine(base, perComplexity, perEdge, complexity, edgeDensity) ==
    IF complexity.kind = "NaN" \/ edgeDensity.kind = "NaN" THEN NaN
    ELSE IF ~IsFinite(complexity) THEN complexity
    ELSE IF ~IsFinite(edgeDensity) THEN edgeDensity
    ELSE Finite((base * MeasureScale + perComplexity * complexity.v
                     + perEdge * edgeDensity.v) \div MeasureScale)

\* a faulty estimator: the edge term of fast is subtracted
keypointCountsEdgeSubtracted(complexity, edgeDensity) ==
    [orb |-> FlooredAffine(30, 250, 100, complexity, edgeDensity),
     fast |-> FlooredAffine(80, 400, -150, complexity, edgeDensity),
     sift |-> FlooredAffine(20, 180, 80, complexity, edgeDensity)]

\* extractKeypoints, lines 201-209
keypointCounts(complexity, edgeDensity) ==
    [orb |-> FlooredAffine(30, 250, 100, complexity, edgeDensity),
     fast |-> FlooredAffine(80, 400, 150, complexity, edgeDensity),
     sift |-> FlooredAffine(20, 180, 80, complexity, edgeDensity)]

\* extractKeypoints, lines 191-210
extractKeypoints(img) ==
    keypointCounts(calculateImageComplexity(img), calculateEdgeDensity(img))

\* 1 / 1e-6: the epsilon guards of the analysers are exact in millionths
Million == 1000000

\* count / (total + 1e-6) as the exact fraction num / den
GuardedFraction(count, total) ==
    [num |-> count * Million, den |-> total * Million + 1]

\* computeLBP, lines 307-324: the code of the pixel at (x, y); bit i is set
\* iff neighbors[i] >= center
lbpValue(img, x, y) ==
    LET center == getGrayValue(img, x, y)
        Bit(i, dx, dy) ==
            IF getGrayValue(img, x + dx, y + dy) >= center THEN 2^i ELSE 0
    IN Bit(0, -1, -1) + Bit(1, 0, -1) + Bit(2, 1, -1) + Bit(3, 1, 0)
           + Bit(4, 1, 1) + Bit(5, 0, 1) + Bit(6, -1, 1) + Bit(7, -1, 0)

\* the pixels the loops of computeLBP visit: radius <= x < width - radius
InteriorPixels(img) == (1..(img.width - 2)) \X (1..(img.height - 2))

\* a faulty LBP: a pixel is counted in the bin of its code and in bin 0
computeLBPCountedTwice(img) ==
    LET histogram == [v \in 0..(patterns - 1) |->
                         Cardinality({p \in InteriorPixels(img) :
                                         lbpValue(img, p[1], p[2]) = v})
                             + (IF v = 0 THEN Cardinality(InteriorPixels(img)) ELSE 0)]
        total == SumFn(histogram, 0, patterns - 1)
    IN [counts |-> histogram,
        histogram |-> [v \in 0..(patterns - 1) |->
                          GuardedFraction(histogram[v], total)],
        patterns |-> patterns,
        radius |-> 1]

\* computeLBP, lines 294-339; counts is the histogram before normalisation
computeLBP(img) ==
    LET histogram == [v \in 0..(patterns - 1) |->
                         Cardinality({p \in InteriorPixels(img) :
                                         lbpValue(img, p[1], p[2]) = v})]
        total == SumFn(histogram, 0, patterns - 1)
    IN [counts |-> histogram,
        histogram |-> [v \in 0..(patterns - 1) |->
                          GuardedFraction(histogram[v], total)],
        patterns |-> patterns,
        radius |-> 1]

\* computeGLCM, lines 354-362: the pairs (i, j) of horizontally adjacent
\* grey levels, one per (x, y) with x < width - distance
levelPairs(img) ==
    [p \in (0..(img.width - 2)) \X (0..(img.height - 1)) |->
        <<getGrayValue(img, p[1], p[2]), getGrayValue(img, p[1] + 1, p[2])>>]

\* computeGLCM, lines 354-376: the nonzero entries of the normalised matrix
glcmMatrix(img) ==
    LET pairs == levelPairs(img)
        cells == { pairs[p] : p \in DOMAIN pairs }
        count == [c \in cells |-> Cardinality({p \in DOMAIN pairs : pairs[p] = c})]
        sum == Cardinality(DOMAIN pairs)
    IN [c \in cells |-> GuardedFraction(count[c], sum)]

\* const levels = 256
levels == 256

\* the sum of W[c] over the cells c = <<i, j>> with lo <= i * levels + j <= hi
RECURSIVE CellSum(_, _, _, _)
CellSum(cells, W, lo, hi) ==
    LET within == {c \in cells : c[1] * levels + c[2] \in lo..hi}
    IN IF within = {} THEN 0
       ELSE IF lo = hi THEN W[CHOOSE c \in within : TRUE]
       ELSE LET mid == (lo + hi) \div 2
            IN CellSum(within, W, lo, mid) + CellSum(within, W, mid + 1, hi)

\* computeGLCM, lines 378-402: the texture features of a normalised matrix,
\* rounded to two decimals; p = num / den with one den for all entries
glcmFeatures(matrix) ==
    LET cells == DOMAIN matrix
        Weighted(W) == CellSum(cells, W, 0, levels * levels - 1)
        Count(c) == matrix[c].num \div Million
        Counts == [c \in cells |-> Count(c)]
        sum == Weighted(Counts)
        Contrast == [c \in cells |-> Count(c) * (c[1] - c[2]) * (c[1] - c[2])]
        Dissimilarity == [c \in cells |-> Count(c) * Abs(c[1] - c[2])]
        Homogeneity == [c \in cells |->
                           (Count(c) * 10000) \div (1 + Abs(c[1] - c[2]))]
        Energy == [c \in cells |-> Count(c) * Count(c)]
    IN IF cells = {}
       THEN [contrast |-> Finite(0), dissimilarity |-> Finite(0),
             homogeneity |-> Finite(0), energy |-> Finite(0),
             correlation |-> Finite(0), asm |-> Finite(0)]
       ELSE [contrast |-> RoundedQuotient(Weighted(Contrast), sum, QualityScale),
             dissimilarity |-> RoundedQuotient(Weighted(Dissimilarity), sum,
                                               QualityScale),
             homogeneity |-> RoundedQuotient(Weighted(Homogeneity), sum * 10000,
                                             QualityScale),
             energy |-> RoundedQuotient(Weighted(Energy), sum * sum, QualityScale),
             correlation |-> Finite(0),
             asm |-> RoundedQuotient(Weighted(Energy), sum * sum, QualityScale)]

\* computeGLCM, lines 344-403
computeGLCM(img) == glcmFeatures(glcmMatrix(img))

\* a * b for a and b in millionths, in millionths
MicroProduct(a, b) == (a * (b \div 1000)) \div 1000

\* computeHuMoments, lines 425-476; the moments are in millionths (six
\* decimals).  mu20 = sum((x - xc)^2 * gray) is worked out as
\* sum(x^2 * gray) - m10^2 / m00, and likewise mu02 and mu11.
computeHuMoments(img) ==
    LET pixelCount == img.width * img.height
        X(k) == k % img.width
        Y(k) == k \div img.width
        gray == [k \in 0..(pixelCount - 1) |-> getGrayValue(img, X(k), Y(k))]
        Moment(W(_)) == SumFn([k \in 0..(pixelCount - 1) |-> W(k) * gray[k]],
                              0, pixelCount - 1)
        One(k) == 1
        XX(k) == X(k) * X(k)
        YY(k) == Y(k) * Y(k)
        XY(k) == X(k) * Y(k)
        m00 == Moment(One)
        m10 == Moment(X)
        m01 == Moment(Y)
        \* m00 + 1e-6 and m00 * m00 + 1e-6 are never 0: with m00 = 0 every
        \* numerator is 0 and so is the quotient
        mu20 == IF m00 = 0 THEN 0 ELSE Moment(XX) - (m10 * m10) \div m00
        mu02 == IF m00 = 0 THEN 0 ELSE Moment(YY) - (m01 * m01) \div m00
        mu11 == IF m00 = 0 THEN 0 ELSE Moment(XY) - (m10 * m01) \div m00
        Eta(mu) == IF m00 = 0 THEN 0 ELSE (((mu * 1000) \div m00) * 1000) \div m00
        eta20 == Eta(mu20)
        eta02 == Eta(mu02)
        eta11 == Eta(mu11)
    IN << Finite(eta20 + eta02),
          Finite(MicroProduct(eta20 - eta02, eta20 - eta02)
                     + 4 * MicroProduct(eta11, eta11)),
          Finite(MicroProduct(eta20 - 3 * eta02, eta20 - 3 * eta02)),
          Finite(MicroProduct(eta20 + eta02, eta20 + eta02)),
          Finite(MicroProduct(eta11, MicroProduct(eta20 - eta02, eta20 - eta02))),
          Finite(MicroProduct(eta20 - eta02, eta11)),
          Finite(MicroProduct(eta11, eta20 + eta02)) >>

\* computeColorMoments, lines 478-510, for one channel; two decimals.  The
\* central moments are summed from the deviations from the rounded mean,
\* which is what sqSum / n - m * m and cubeSum / n - 3 m variance - m^3 are.
channelMoments(img) ==
    LET n == img.width * img.height
        val == [k \in 0..(n - 1) |-> Channel(img, k % img.width, k \div img.width)]
        sum == SumFn(val, 0, n - 1)
        sqSum == SumFn([k \in 0..(n - 1) |-> val[k] * val[k]], 0, n - 1)
        m == IF n = 0 THEN 0 ELSE (2 * sum + n) \div (2 * n)
        cubeDev == SumFn([k \in 0..(n - 1) |->
                             (val[k] - m) * (val[k] - m) * (val[k] - m)], 0, n - 1)
        s == IF n = 0 THEN 0 ELSE Isqrt((n * sqSum - sum * sum) \div (n * n))
    IN [mean |-> RoundedQuotient(sum, n, QualityScale),
        std |-> RoundedQuotient(Isqrt(n * sqSum - sum * sum), n, QualityScale),
        \* the denominator s^3 + 1e-6 is never 0
        skewness |-> IF n = 0 THEN NaN
                     ELSE IF s = 0 THEN Finite(0)
                     ELSE RoundedQuotient(cubeDev, n * s * s * s, QualityScale)]

\* computeColorMoments: the channels R, G and B
computeColorMoments(img) ==
    LET ch == channelMoments(img)
    IN [mean |-> <<ch.mean, ch.mean, ch.mean>>,
        std |-> <<ch.std, ch.std, ch.std>>,
        skewness |-> <<ch.skewness, ch.skewness, ch.skewness>>]

\* extractStatisticalFeatures, lines 408-423
extractStatisticalFeatures(img) ==
    [huMoments |-> computeHuMoments(img),
     colorMoments |-> computeColorMoments(img)]

\* the analysers in the order extractComprehensiveFeatures calls them
Analyzers == <<"keypoints", "lbp", "glcm", "statistical", "quality">>

\* analyser number a has returned
Measured(a) == measured[Analyzers[a]] # NoValue

\* the next analyser returns what it computes from the image data
Analyze(a, value) ==
    /\ ~Measured(a)
    /\ \A b \in 1..(a - 1) : Measured(b)
    /\ measured' = [measured EXCEPT ![Analyzers[a]] = value]
    /\ UNCHANGED <<sample, besidesAnalyzers>>

ExtractKeypoints ==
    Analyze(1, [complexity |-> calculateImageComplexity(sample),
                edgeDensity |-> calculateEdgeDensity(sample),
                counts |-> extractKeypoints(sample)])

ComputeLBP == Analyze(2, computeLBP(sample))

ComputeGLCM ==
    Analyze(3, [matrix |-> glcmMatrix(sample), features |-> computeGLCM(sample)])

ExtractStatisticalFeatures == Analyze(4, extractStatisticalFeatures(sample))

AnalyzeImageQuality == Analyze(5, analyzeImageQuality(sample))

\* the analysers at work on one image, as extractComprehensiveFeatures
\* calls them
InitAnalyzers ==
    /\ PipelineIdle
    /\ FeaturesIdle
    /\ sample \in Samples
    /\ measured = [a \in {"keypoints", "lbp", "glcm", "statistical", "quality"} |->
                      NoValue]
    /\ KeypointsIdle
    /\ ImprovementIdle
    /\ TrainerIdle
    /\ StreamIdle
    /\ NmsIdle
    /\ AppIdle
    /\ VideoIdle
    /\ EnhanceIdle
    /\ CompareIdle
    /\ SplitIdle

NextAnalyzers ==
    \/ ExtractKeypoints
    \/ ComputeLBP
    \/ ComputeGLCM
    \/ ExtractStatisticalFeatures
    \/ AnalyzeImageQuality

SpecAnalyzers == InitAnalyzers /\ [][NextAnalyzers]_vars

\* extractKeypoints as a function of complexity and edgeDensity, called on
\* images of growing edge content.  Both measures run over a grid of
\* GridSteps steps from 0 to 1.
GridSteps == 12
GridStep == MeasureScale \div GridSteps
Grid == { k * GridStep : k \in 0..GridSteps }

InitKeypoints ==
    /\ PipelineIdle
    /\ FeaturesIdle
    /\ AnalyzersIdle
    /\ imageComplexity \in Grid
    /\ imageEdgeDensity \in Grid
    /\ keypointStats = keypointCounts(Finite(imageComplexity),
                                      Finite(imageEdgeDensity))
    /\ ImprovementIdle
    /\ TrainerIdle
    /\ StreamIdle
    /\ NmsIdle
    /\ AppIdle
    /\ VideoIdle
    /\ EnhanceIdle
    /\ CompareIdle
    /\ SplitIdle

\* the next image has more pixels over the edge threshold
RaiseComplexity ==
    /\ \E c \in Grid :
           /\ c > imageComplexity
           /\ imageComplexity' = c
           /\ keypointStats' = keypointCounts(Finite(c), Finite(imageEdgeDensity))
    /\ UNCHANGED <<imageEdgeDensity, besidesKeypoints>>

\* the next image has stronger gradients
RaiseEdgeDensity ==
    /\ \E e \in Grid :
           /\ e > imageEdgeDensity
           /\ imageEdgeDensity' = e
           /\ keypointStats' = keypointCounts(Finite(imageComplexity), Finite(e))
    /\ UNCHANGED <<imageComplexity, besidesKeypoints>>

NextKeypoints == RaiseComplexity \/ RaiseEdgeDensity

SpecKeypoints == InitKeypoints /\ [][NextKeypoints]_vars

-----------------------------------------------------------------------------
(* The keypoint improvement of processFeatures, StepFeatureExtraction.tsx, *)
(* as a function of the two KeypointStats.  Percentages are in units of    *)
(* 1/MeasureScale.                                                         *)

\* a + b of two JavaScript numbers
Plus(a, b) ==
    IF a.kind = "NaN" \/ b.kind = "NaN" THEN NaN
    ELSE IF a.kind = "Infinity" /\ b.kind = "Infinity"
         THEN IF a.v = b.v THEN a ELSE NaN
    ELSE IF a.kind = "Infinity" THEN a
    ELSE IF b.kind = "Infinity" THEN b
    ELSE Finite(a.v + b.v)

\* a / k of a JavaScript number and a positive integer
Over(a, k) == IF IsFinite(a) THEN Finite(a.v \div k) ELSE a

\* ((enhanced - lowLight) / lowLight) * 100, lines 63-65
percentChange(lowLightCount, enhancedCount) ==
    Divide((enhancedCount - lowLightCount) * 100, lowLightCount, MeasureScale)

\* comparison.keypoints.improvement, lines 62-71
keypointImprovement(lowLight, enhanced) ==
    LET orb == percentChange(lowLight.orb, enhanced.orb)
        fast == percentChange(lowLight.fast, enhanced.fast)
        sift == percentChange(lowLight.sift, enhanced.sift)
    IN [orb |-> orb, fast |-> fast, sift |-> sift,
        average |-> Over(Plus(Plus(orb, fast), sift), 3)]

\* the counts a KeypointStats is drawn from: 0 is the count the division
\* is about, the others are counts extractKeypoints returns
KeypointCounts == {0, 30, 80, 150}
KeypointStatsValues == [orb : KeypointCounts, fast : KeypointCounts,
                        sift : {0, 20}]

InitImprovement ==
    /\ PipelineIdle
    /\ FeaturesIdle
    /\ AnalyzersIdle
    /\ KeypointsIdle
    /\ lowLightKeypoints \in KeypointStatsValues
    /\ enhancedKeypoints \in KeypointStatsValues
    /\ improvement = NoValue
    /\ TrainerIdle
    /\ StreamIdle
    /\ NmsIdle
    /\ AppIdle
    /\ VideoIdle
    /\ EnhanceIdle
    /\ CompareIdle
    /\ SplitIdle

\* results.push({... comparison: {... keypoints: {... improvement}}})
CompareKeypoints ==
    /\ improvement = NoValue
    /\ improvement' = keypointImprovement(lowLightKeypoints, enhancedKeypoints)
    /\ UNCHANGED <<lowLightKeypoints, enhancedKeypoints, besidesImprovement>>

NextImprovement == CompareKeypoints

SpecImprovement == InitImprovement /\ [][NextImprovement]_vars

-----------------------------------------------------------------------------
(* ModelTrainer, trainingWorker.ts, driven by the buttons of               *)
(* StepDatasetTraining.  A Worker is a number; the script of               *)
(* createTrainingWorker runs in it one epoch at a time and posts PROGRESS  *)
(* and COMPLETE messages, which the browser delivers in order to the       *)
(* Worker's onmessage, if it has one.                                      *)

\* config.epochs
Epochs == 2

InitTrainer ==
    /\ PipelineIdle
    /\ FeaturesIdle
    /\ AnalyzersIdle
    /\ KeypointsIdle
    /\ ImprovementIdle
    /\ TrainerIdle
    /\ StreamIdle
    /\ NmsIdle
    /\ AppIdle
    /\ VideoIdle
    /\ EnhanceIdle
    /\ CompareIdle
    /\ SplitIdle

\* ModelTrainer.stop: terminate() discards what the Worker was doing and
\* the messages not yet delivered; the replacement Worker comes from
\* createTrainingWorker() as it is, no onmessage assigned
stop ==
    /\ worker' = worker + 1
    /\ attached' = attached
    /\ inbox' = <<>>
    /\ workerRun' = 0
    /\ epoch' = 0
    /\ outbox' = <<>>

\* handleStartTraining: the Start button is shown while training is false.
\* The first call constructs the ModelTrainer (a Worker with onmessage
\* assigned); train() stores the callbacks and posts TRAIN.
HandleStartTraining ==
    /\ ~training
    /\ runs < MaxRuns
    /\ runs' = runs + 1
    /\ training' = TRUE
    /\ IF worker = 0
       THEN worker' = 1 /\ attached' = {1}
       ELSE UNCHANGED <<worker, attached>>
    /\ callbacks' = runs + 1
    /\ inbox' = Append(inbox, runs + 1)
    /\ afterStop' = IF stopped # {} THEN afterStop \cup {runs + 1} ELSE afterStop
    /\ UNCHANGED <<workerRun, epoch, outbox, stopped, progressCalls, completed,
                   besidesTrainer>>

\* handleStopTraining: the Stop button is shown while training is true
HandleStopTraining ==
    /\ training
    /\ worker # 0
    /\ stop
    /\ training' = FALSE
    /\ stopped' = stopped \cup {callbacks}
    /\ UNCHANGED <<callbacks, runs, afterStop, progressCalls, completed,
                   besidesTrainer>>

\* self.onmessage of the worker script takes a TRAIN message
WorkerReceivesTrain ==
    /\ workerRun = 0
    /\ inbox # <<>>
    /\ workerRun' = Head(inbox)
    /\ inbox' = Tail(inbox)
    /\ epoch' = 0
    /\ UNCHANGED <<training, worker, attached, callbacks, outbox, runs, afterStop,
                   stopped, progressCalls, completed, besidesTrainer>>

\* one turn of the loop of simulateTrainingUI
WorkerEpoch ==
    /\ workerRun # 0
    /\ epoch < Epochs
    /\ epoch' = epoch + 1
    /\ outbox' = Append(outbox, [type |-> "PROGRESS", epoch |-> epoch + 1])
    /\ UNCHANGED <<training, worker, attached, callbacks, inbox, workerRun, runs,
                   afterStop, stopped, progressCalls, completed, besidesTrainer>>

\* the end of simulateTrainingUI
WorkerCompletes ==
    /\ workerRun # 0
    /\ epoch = Epochs
    /\ workerRun' = 0
    /\ outbox' = Append(outbox, [type |-> "COMPLETE", epoch |-> epoch])
    /\ UNCHANGED <<training, worker, attached, callbacks, inbox, epoch, runs,
                   afterStop, stopped, progressCalls, completed, besidesTrainer>>

\* the browser delivers the next message of the current Worker: the
\* onmessage of the constructor calls the stored callback; a Worker
\* without onmessage has nobody to deliver to
MessageDelivered ==
    /\ outbox # <<>>
    /\ outbox' = Tail(outbox)
    /\ LET msg == Head(outbox)
       IN IF worker \in attached /\ callbacks # 0
          THEN IF msg.type = "PROGRESS"
               THEN /\ progressCalls' =
                        [progressCalls EXCEPT ![callbacks] = @ + 1]
                    /\ UNCHANGED <<training, completed>>
               ELSE /\ completed' = completed \cup {callbacks}
                    /\ training' = FALSE
                    /\ UNCHANGED progressCalls
          ELSE UNCHANGED <<training, progressCalls, completed>>
    /\ UNCHANGED <<worker, attached, callbacks, inbox, workerRun, epoch, runs,
                   afterStop, stopped, besidesTrainer>>

NextTrainer ==
    \/ HandleStartTraining
    \/ HandleStopTraining
    \/ WorkerReceivesTrain
    \/ WorkerEpoch
    \/ WorkerCompletes
    \/ MessageDelivered

SpecTrainer == InitTrainer /\ [][NextTrainer]_vars

\* the Worker runs and the browser delivers; nobody has to press a button
SpecTrainerFair ==
    /\ SpecTrainer
    /\ WF_vars(WorkerReceivesTrain)
    /\ WF_vars(WorkerEpoch)
    /\ WF_vars(WorkerCompletes)
    /\ WF_vars(MessageDelivered)

-----------------------------------------------------------------------------
(* detectInVideoStream, videoDetection.ts, called by handleWebcamStart of  *)
(* StepVideoDetection.  Time is counted in animation frames: the interval  *)
(* 1000 / frameRate lasts IntervalTicks of them.                           *)

IntervalTicks == 2
MaxFrames == 3

InitStream ==
    /\ PipelineIdle
    /\ FeaturesIdle
    /\ AnalyzersIdle
    /\ KeypointsIdle
    /\ ImprovementIdle
    /\ TrainerIdle
    /\ StreamIdle
    /\ NmsIdle
    /\ AppIdle
    /\ VideoIdle
    /\ EnhanceIdle
    /\ CompareIdle
    /\ SplitIdle

\* the part of processFrame from 'lastProcessTime = now' to the await of
\* yoloDetector.detect: without a 2d context the frame is skipped
processFrame(ctx) ==
    /\ sinceLast' = 0
    /\ IF ctx
       THEN /\ detectCalls' = detectCalls + 1
            /\ callsAfterStop' = IF stopFn = "called"
                                 THEN callsAfterStop \cup {detectCalls + 1}
                                 ELSE callsAfterStop
            /\ streamPc' = "detecting"
       ELSE /\ UNCHANGED <<detectCalls, callsAfterStop>>
            /\ streamPc' = "scheduled"

\* handleWebcamStart calls detectInVideoStream: video.play()
HandleWebcamStart ==
    /\ streamPc = "idle"
    /\ streamPc' = "loading"
    /\ playing' = TRUE
    /\ UNCHANGED <<stopFn, sinceLast, frameCount, detectCalls, callsAfterStop,
                   reported, besidesStream>>

\* the metadata has loaded and loadModel() has settled.  If it resolved,
\* processFrame() runs for the first time (performance.now() is past the
\* first interval) and the stop function is returned and kept in
\* stopStreamRef; if it rejected, so does detectInVideoStream.
StreamStarts ==
    /\ streamPc = "loading"
    /\ \E loaded \in BOOLEAN :
           IF loaded
           THEN /\ \E ctx \in BOOLEAN : processFrame(ctx)
                /\ stopFn' = "held"
           ELSE /\ streamPc' = "failed"
                /\ UNCHANGED <<stopFn, sinceLast, detectCalls, callsAfterStop>>
    /\ UNCHANGED <<playing, frameCount, reported, besidesStream>>

\* the browser runs the processFrame passed to requestAnimationFrame
AnimationFrame ==
    /\ streamPc = "scheduled"
    /\ detectCalls < MaxFrames
    /\ IF sinceLast < IntervalTicks
       THEN /\ sinceLast' = sinceLast + 1
            /\ UNCHANGED <<streamPc, detectCalls, callsAfterStop>>
       ELSE \E ctx \in BOOLEAN : processFrame(ctx)
    /\ UNCHANGED <<stopFn, playing, frameCount, reported, besidesStream>>

\* yoloDetector.detect settles: on success frameCount++ and both callbacks
\* run, on failure the error is logged; either way processFrame is passed
\* to requestAnimationFrame again
DetectSettles ==
    /\ streamPc = "detecting"
    /\ \E ok \in BOOLEAN :
           IF ok
           THEN /\ frameCount' = frameCount + 1
                /\ reported' = reported \cup {detectCalls}
           ELSE UNCHANGED <<frameCount, reported>>
    /\ streamPc' = "scheduled"
    /\ UNCHANGED <<stopFn, playing, sinceLast, detectCalls, callsAfterStop,
                   besidesStream>>

\* handleStop calls the stop function: video.pause() and track.stop() on
\* every track
HandleStop ==
    /\ stopFn = "held"
    /\ stopFn' = "called"
    /\ playing' = FALSE
    /\ UNCHANGED <<streamPc, sinceLast, frameCount, detectCalls, callsAfterStop,
                   reported, besidesStream>>

NextStream ==
    \/ HandleWebcamStart
    \/ StreamStarts
    \/ AnimationFrame
    \/ DetectSettles
    \/ HandleStop

SpecStream == InitStream /\ [][NextStream]_vars

-----------------------------------------------------------------------------
(* ObjectDetector.applyNMS and calculateIoU, yoloDetection.ts.  Box        *)
(* coordinates are whole pixels, confidences are in percent.               *)

\* private readonly nmsThreshold = 0.3, in tenths
nmsThresholdTenths == 3

Max(a, b) == IF a > b THEN a ELSE b

\* calculateIoU, lines 455-467: the intersection and the union, whose
\* quotient is returned (0 when the union is 0)
calculateIoU(box1, box2) ==
    LET x1 == Max(box1.x, box2.x)
        y1 == Max(box1.y, box2.y)
        x2 == Min(box1.x + box1.width, box2.x + box2.width)
        y2 == Min(box1.y + box1.height, box2.y + box2.height)
        intersection == Max(0, x2 - x1) * Max(0, y2 - y1)
        area1 == box1.width * box1.height
        area2 == box2.width * box2.height
    IN [intersection |-> intersection,
        union |-> area1 + area2 - intersection]

\* iou > this.nmsThreshold
aboveThreshold(iou) ==
    iou.union > 0 /\ 10 * iou.intersection > nmsThresholdTenths * iou.union

\* [...boxes].sort((a, b) => b.confidence - a.confidence): the sort is
\* stable, a box goes before the boxes after it that are not more confident
RECURSIVE sortByConfidence(_)
sortByConfidence(bs) ==
    IF bs = <<>> THEN <<>>
    ELSE LET rest == sortByConfidence(Tail(bs))
             ahead == { k \in 1..Len(rest) :
                          rest[k].confidence > Head(bs).confidence }
             n == Cardinality(ahead)
         IN SubSeq(rest, 1, n) \o <<Head(bs)>> \o SubSeq(rest, n + 1, Len(rest))

\* an inner loop that suppresses across classes
suppressAnyClass(sorted, i, used) ==
    { j \in (i + 1)..Len(sorted) :
        /\ j \notin used
        /\ aboveThreshold(calculateIoU(sorted[i], sorted[j])) }

\* the inner loop of applyNMS, lines 437-446: the indexes it adds to 'used'
suppress(sorted, i, used) ==
    { j \in (i + 1)..Len(sorted) :
        /\ j \notin used
        /\ sorted[i].class = sorted[j].class
        /\ aboveThreshold(calculateIoU(sorted[i], sorted[j])) }

\* the outer loop of applyNMS from index i on, lines 432-447
RECURSIVE nmsLoop(_, _, _, _)
nmsLoop(sorted, i, used, kept) ==
    IF i > Len(sorted) THEN kept
    ELSE IF i \in used THEN nmsLoop(sorted, i + 1, used, kept)
    ELSE nmsLoop(sorted, i + 1, used \cup suppress(sorted, i, used),
                 Append(kept, sorted[i]))

\* applyNMS, lines 424-450
applyNMS(bs) ==
    IF Len(bs) = 0 THEN <<>>
    ELSE nmsLoop(sortByConfidence(bs), 1, {}, <<>>)

\* the boxes the detector hands to applyNMS: three places along a row, each
\* overlapping its neighbour by more than the threshold and the far one not
\* at all; two classes; two confidences
MaxBoxes == 3
DetectionBoxes ==
    [x : {0, 2, 4}, y : {0}, width : {4}, height : {4},
     confidence : {50, 90}, class : {"person", "car"}]
BoxInputs == UNION { [1..n -> DetectionBoxes] : n \in 0..MaxBoxes }

InitNms ==
    /\ PipelineIdle
    /\ FeaturesIdle
    /\ AnalyzersIdle
    /\ KeypointsIdle
    /\ ImprovementIdle
    /\ TrainerIdle
    /\ StreamIdle
    /\ AppIdle
    /\ VideoIdle
    /\ EnhanceIdle
    /\ CompareIdle
    /\ SplitIdle
    /\ inputBoxes \in BoxInputs
    /\ selected = NoValue

\* boxes = this.applyNMS(boxes)
ApplyNMS ==
    /\ selected = NoValue
    /\ selected' = [isSet |-> TRUE, boxes |-> applyNMS(inputBoxes)]
    /\ UNCHANGED <<inputBoxes, besidesNms>>

NextNms == ApplyNMS

SpecNms == InitNms /\ [][NextNms]_vars

-----------------------------------------------------------------------------
(* App, App.tsx: the current step, the loaded and selected images and the  *)
(* browser history, with the selection state of StepProcess.  State        *)
(* updates of one handler are rendered together; the effect that depends   *)
(* on originalImages and selectedResults runs after the render and before  *)
(* the next event is handled.                                              *)

Steps == {"UPLOAD", "PROCESS", "FEATURE_EXTRACTION", "STEP_2", "STEP_3",
          "PIPELINE"}

stepToHash(step) ==
    CASE step = "UPLOAD" -> ""
      [] step = "PROCESS" -> "enhance"
      [] step = "FEATURE_EXTRACTION" -> "extract"
      [] step = "STEP_2" -> "detection"
      [] step = "STEP_3" -> "tracking"
      [] step = "PIPELINE" -> "pipeline"
      [] OTHER -> ""

hashToStep(hash) ==
    CASE hash = "enhance" -> "PROCESS"
      [] hash = "extract" -> "FEATURE_EXTRACTION"
      [] hash = "detection" -> "STEP_2"
      [] hash = "tracking" -> "STEP_3"
      [] hash = "pipeline" -> "PIPELINE"
      [] OTHER -> "UPLOAD"

\* entries the history may hold at most
MaxHistory == 4
\* readable images of one upload, at most
MaxImages == 1
\* entries of selectedResults, at most
MaxSelected == 4
\* the result cards of StepProcess for one image: enhancement, hist_eq, gamma
Cards == {"enhancement-0", "hist_eq-0", "gamma-0"}

Entry(state, hash) == [state |-> state, hash |-> hash]

\* const requiresResult = [...]
requiresResult == {"FEATURE_EXTRACTION", "STEP_2", "STEP_3", "PIPELINE"}

\* updateHash: pushState unless the location has the hash already
updateHash(step) ==
    IF history[position].hash # stepToHash(step)
    THEN /\ position < MaxHistory
         /\ history' = Append(SubSeq(history, 1, position),
                              Entry(step, stepToHash(step)))
         /\ position' = position + 1
    ELSE UNCHANGED <<history, position>>

\* navigateToStep
navigateToStep(step) ==
    /\ currentStep' = step
    /\ updateHash(step)

\* handlePopState with the redirection of a step that needs a selected
\* result left out
handlePopStateResultsUnchecked(at, stateStep) ==
    LET targetStep == IF stateStep # "none" THEN stateStep
                      ELSE hashToStep(history[at].hash)
    IN IF targetStep = "PROCESS" /\ originalImages = 0
       THEN /\ history' = [history EXCEPT ![at] = Entry("none", "")]
            /\ currentStep' = "UPLOAD"
       ELSE /\ currentStep' = targetStep
            /\ UNCHANGED history

\* handlePopState, lines 68-94, run at the history entry 'at' with the
\* event's state.step ("none" when there is no event or no state)
handlePopState(at, stateStep) ==
    LET targetStep == IF stateStep # "none" THEN stateStep
                      ELSE hashToStep(history[at].hash)
    IN IF targetStep = "PROCESS" /\ originalImages = 0
       THEN /\ history' = [history EXCEPT ![at] = Entry("none", "")]
            /\ currentStep' = "UPLOAD"
       ELSE IF targetStep \in requiresResult /\ Len(selectedResults) = 0
       THEN IF originalImages > 0
            THEN /\ history' = [history EXCEPT ![at] = Entry("none", "enhance")]
                 /\ currentStep' = "PROCESS"
            ELSE /\ history' = [history EXCEPT ![at] = Entry("none", "")]
                 /\ currentStep' = "UPLOAD"
       ELSE /\ currentStep' = targetStep
            /\ UNCHANGED history

\* StepProcess is rendered (line 264); when it is not, its state is gone
\* and a later StepProcess starts with an empty selectedResultIds
StepProcessShown == currentStep = "PROCESS" /\ originalImages > 0
Rendered ==
    selectedResultIds' =
        IF currentStep' = "PROCESS" /\ originalImages' > 0
        THEN selectedResultIds ELSE {}

\* a view with a Reset or New Upload button is rendered
ResetShown ==
    \/ StepProcessShown
    \/ currentStep \in {"FEATURE_EXTRACTION", "STEP_2", "STEP_3"}
           /\ Len(selectedResults) > 0
    \/ currentStep = "PIPELINE" /\ originalImages > 0

Did(kind, target) == lastEvent' = [kind |-> kind, target |-> target]

\* the page opens at any of the hashes; the effect has yet to run
InitApp ==
    /\ PipelineIdle
    /\ FeaturesIdle
    /\ AnalyzersIdle
    /\ KeypointsIdle
    /\ ImprovementIdle
    /\ TrainerIdle
    /\ StreamIdle
    /\ NmsIdle
    /\ VideoIdle
    /\ EnhanceIdle
    /\ CompareIdle
    /\ SplitIdle
    /\ currentStep = "UPLOAD"
    /\ originalImages = 0
    /\ selectedResults = <<>>
    /\ selectedResultIds = {}
    /\ \E step \in Steps : history = <<Entry("none", stepToHash(step))>>
    /\ position = 1
    /\ effectPending = TRUE
    /\ lastEvent = [kind |-> "none", target |-> "UPLOAD"]

\* the useEffect of lines 67-101 runs handlePopState() after a render in
\* which originalImages or selectedResults changed
RunEffect ==
    /\ effectPending
    /\ effectPending' = FALSE
    /\ handlePopState(position, "none")
    /\ Did("effect", hashToStep(history[position].hash))
    /\ UNCHANGED <<originalImages, selectedResults, position, besidesApp>>
    /\ Rendered

\* handleImageSelected: every file read, or one of them failed
HandleImageSelected ==
    /\ ~effectPending
    /\ currentStep = "UPLOAD"
    /\ \E read \in 0..MaxImages :
           IF read > 0
           THEN /\ originalImages' = read
                /\ navigateToStep("PROCESS")
                /\ effectPending' = TRUE
           ELSE UNCHANGED <<originalImages, currentStep, history, position,
                            effectPending>>
    /\ Did("upload", "PROCESS")
    /\ UNCHANGED <<selectedResults, besidesApp>>
    /\ Rendered

\* handlePipelineSelected
HandlePipelineSelected ==
    /\ ~effectPending
    /\ currentStep = "UPLOAD"
    /\ \E read \in 0..MaxImages :
           IF read > 0
           THEN /\ originalImages' = read
                /\ navigateToStep("PIPELINE")
                /\ effectPending' = TRUE
           ELSE UNCHANGED <<originalImages, currentStep, history, position,
                            effectPending>>
    /\ Did("pipeline", "PIPELINE")
    /\ UNCHANGED <<selectedResults, besidesApp>>
    /\ Rendered

\* the buttons of the header, lines 208-251
HeaderClick ==
    /\ ~effectPending
    /\ \E button \in {"UPLOAD", "PROCESS", "FEATURE_EXTRACTION", "STEP_2"} :
           /\ Did("header", button)
           /\ IF button = "UPLOAD" THEN navigateToStep("UPLOAD")
              ELSE IF button = "PROCESS"
              THEN IF originalImages = 0 THEN navigateToStep("UPLOAD")
                   ELSE navigateToStep("PROCESS")
              ELSE IF Len(selectedResults) = 0
                   THEN IF originalImages > 0 THEN navigateToStep("PROCESS")
                        ELSE navigateToStep("UPLOAD")
                   ELSE navigateToStep(button)
    /\ UNCHANGED <<originalImages, selectedResults, effectPending, besidesApp>>
    /\ Rendered

\* handleSelectToggle of StepProcess with handleResultSelected of App
HandleSelectToggle(card) ==
    /\ ~effectPending
    /\ StepProcessShown
    /\ IF card \in selectedResultIds
       THEN /\ selectedResultIds' = selectedResultIds \ {card}
            /\ UNCHANGED <<selectedResults, effectPending>>
       ELSE /\ Len(selectedResults) < MaxSelected
            /\ selectedResultIds' = selectedResultIds \cup {card}
            /\ selectedResults' = Append(selectedResults, card)
            /\ effectPending' = TRUE
    /\ Did("toggle", "PROCESS")
    /\ UNCHANGED <<currentStep, originalImages, history, position, besidesApp>>

\* the Clear button of StepProcess: handleClearSelection
HandleClearSelection ==
    /\ ~effectPending
    /\ StepProcessShown
    /\ Len(selectedResults) > 0
    /\ selectedResults' = <<>>
    /\ effectPending' = TRUE
    /\ Did("clear", "PROCESS")
    /\ UNCHANGED <<currentStep, originalImages, selectedResultIds, history,
                   position, besidesApp>>

\* the Continue button of StepProcess: handleConfirmSelection
HandleConfirmSelection ==
    /\ ~effectPending
    /\ StepProcessShown
    /\ Len(selectedResults) > 0
    /\ navigateToStep("FEATURE_EXTRACTION")
    /\ Did("confirm", "FEATURE_EXTRACTION")
    /\ UNCHANGED <<originalImages, selectedResults, effectPending, besidesApp>>
    /\ Rendered

\* handleFeatureExtractionComplete, and onNext of StepObjectDetection
HandleStepComplete ==
    /\ ~effectPending
    /\ currentStep \in {"FEATURE_EXTRACTION", "STEP_2"}
    /\ Len(selectedResults) > 0
    /\ LET next == IF currentStep = "FEATURE_EXTRACTION" THEN "STEP_2"
                   ELSE "STEP_3"
       IN navigateToStep(next) /\ Did("complete", next)
    /\ UNCHANGED <<originalImages, selectedResults, effectPending, besidesApp>>
    /\ Rendered

\* handleReset
HandleReset ==
    /\ ~effectPending
    /\ ResetShown
    /\ originalImages' = 0
    /\ selectedResults' = <<>>
    /\ navigateToStep("UPLOAD")
    /\ effectPending' = TRUE
    /\ Did("reset", "UPLOAD")
    /\ UNCHANGED besidesApp
    /\ Rendered

\* the browser's back and forward buttons: popstate with the entry's state
BrowserBackForward ==
    /\ ~effectPending
    /\ \E to \in {position - 1, position + 1} :
           /\ to \in 1..Len(history)
           /\ position' = to
           /\ handlePopState(to, history[to].state)
           /\ Did("popstate", IF history[to].state # "none"
                              THEN history[to].state
                              ELSE hashToStep(history[to].hash))
    /\ UNCHANGED <<originalImages, selectedResults, effectPending, besidesApp>>
    /\ Rendered
NextApp ==
    \/ RunEffect
    \/ HandleImageSelected
    \/ HandlePipelineSelected
    \/ HeaderClick
    \/ HandleSelectToggle("enhancement-0")
    \/ HandleClearSelection
    \/ HandleConfirmSelection
    \/ HandleStepComplete
    \/ HandleReset
    \/ BrowserBackForward

SpecApp == InitApp /\ [][NextApp]_vars

-----------------------------------------------------------------------------
(* The enhancement step on its own: StepProcess has just been rendered     *)
(* for one uploaded image, and the user works its result cards and its     *)
(* Clear button.                                                           *)

InitSelection ==
    /\ PipelineIdle
    /\ FeaturesIdle
    /\ AnalyzersIdle
    /\ KeypointsIdle
    /\ ImprovementIdle
    /\ TrainerIdle
    /\ StreamIdle
    /\ NmsIdle
    /\ VideoIdle
    /\ EnhanceIdle
    /\ CompareIdle
    /\ SplitIdle
    /\ currentStep = "PROCESS"
    /\ originalImages = 1
    /\ selectedResults = <<>>
    /\ selectedResultIds = {}
    /\ history = <<Entry("none", ""), Entry("PROCESS", "enhance")>>
    /\ position = 2
    /\ effectPending = FALSE
    /\ lastEvent = [kind |-> "effect", target |-> "PROCESS"]

NextSelection ==
    \/ \E card \in Cards : HandleSelectToggle(card)
    \/ HandleClearSelection
    \/ RunEffect

SpecSelection == InitSelection /\ [][NextSelection]_vars

-----------------------------------------------------------------------------
(* detectInVideo, videoDetection.ts: one call on a video of whole seconds. *)
(* framesToProcess is a JavaScript number, which a zero frameInterval      *)
(* makes Infinity or NaN.                                                  *)

\* const fps = 30
fps == 30
\* the frame rates asked for: 0.5, 1, 15, 30 and 60 frames per second
FrameRates == {1, 2, 30, 60, 120}
\* the longest video, in seconds
MaxDuration == 2
\* the largest maxFrames given
MaxMaxFrames == 2
\* in a loop without end the index is counted up to here and then only
\* known to be larger
IndexCap == 3

\* Math.floor(a / b) of two whole numbers, b possibly 0
FlooredQuotient(a, b) ==
    IF b = 0 THEN (IF a = 0 THEN NaN ELSE Infinity(1))
    ELSE Finite(a \div b)

\* Math.min(a, n) of a whole number a and a JavaScript number n
MinWith(a, n) ==
    IF n.kind = "NaN" THEN NaN
    ELSE IF n.kind = "Infinity" THEN (IF n.v > 0 THEN Finite(a) ELSE n)
    ELSE Finite(Min(a, n.v))

\* lines 52-58: totalFrames, frameInterval and framesToProcess
planFrames(seconds, rateHalves, limit) ==
    LET totalFrames == seconds * fps
        frameInterval == (2 * fps) \div rateHalves
        available == FlooredQuotient(totalFrames, frameInterval)
    IN IF limit # 0 THEN MinWith(limit, available) ELSE available

\* i < framesToProcess
LoopContinues(i, n) ==
    CASE n.kind = "NaN" -> FALSE
      [] n.kind = "Infinity" -> n.v > 0
      [] OTHER -> i < n.v

\* (processedCount / framesToProcess) * 100, rounded down
progressPercent(count, n) ==
    CASE n.kind = "NaN" -> NaN
      [] n.kind = "Infinity" -> Finite(0)
      [] OTHER -> Divide(count * 100, n.v, 1)

InitVideo ==
    /\ PipelineIdle
    /\ FeaturesIdle
    /\ AnalyzersIdle
    /\ KeypointsIdle
    /\ ImprovementIdle
    /\ TrainerIdle
    /\ StreamIdle
    /\ NmsIdle
    /\ AppIdle
    /\ EnhanceIdle
    /\ CompareIdle
    /\ SplitIdle
    /\ videoPc = "loading"
    /\ frameRateHalves \in FrameRates
    /\ maxFrames \in 0..MaxMaxFrames
    /\ duration \in 0..MaxDuration
    /\ framesToProcess = NoValue
    /\ frameIndex = 0
    /\ processedCount = 0
    /\ lastProgress = 0

\* the for loop tests i at index 'i': seek to the next frame, or build the
\* result, call onComplete and resolve
loopAt(i, n) ==
    /\ frameIndex' = IF IsFinite(n) THEN i ELSE Min(i, IndexCap)
    /\ videoPc' = IF LoopContinues(i, n) THEN "seeking" ELSE "resolved"

\* video.onloadedmetadata fires and the handler runs up to
\* 'await yoloDetector.loadModel()', or video.onerror fires and the promise
\* is rejected
VideoLoaded ==
    /\ videoPc = "loading"
    /\ \E ok \in BOOLEAN :
           IF ok
           THEN /\ framesToProcess' =
                       planFrames(duration, frameRateHalves, maxFrames)
                /\ videoPc' = "loadModel"
           ELSE /\ videoPc' = "rejected"
                /\ UNCHANGED framesToProcess
    /\ UNCHANGED <<frameRateHalves, maxFrames, duration, frameIndex,
                   processedCount, lastProgress, besidesVideo>>

\* loadModel() settles.  If it rejected, the async handler ends with that
\* rejection, and nothing calls resolve or reject of the returned promise.
VideoModelSettles ==
    /\ videoPc = "loadModel"
    /\ \E ok \in BOOLEAN :
           IF ok THEN loopAt(0, framesToProcess)
           ELSE videoPc' = "abandoned" /\ UNCHANGED frameIndex
    /\ UNCHANGED <<frameRateHalves, maxFrames, duration, framesToProcess,
                   processedCount, lastProgress, besidesVideo>>

\* video.onseeked fires: without a 2d context the frame is skipped,
\* otherwise yoloDetector.detect is called
FrameSeeked ==
    /\ videoPc = "seeking"
    /\ \E ctx \in BOOLEAN :
           IF ctx THEN videoPc' = "detecting" /\ UNCHANGED frameIndex
           ELSE loopAt(frameIndex + 1, framesToProcess)
    /\ UNCHANGED <<frameRateHalves, maxFrames, duration, framesToProcess,
                   processedCount, lastProgress, besidesVideo>>

\* detect() settles: on success the frame is counted and reported, on
\* failure it is logged; the loop goes on
FrameDetected ==
    /\ videoPc = "detecting"
    /\ \E ok \in BOOLEAN :
           IF ok
           THEN /\ processedCount' =
                       IF IsFinite(framesToProcess) THEN processedCount + 1
                       ELSE Min(processedCount + 1, IndexCap)
                /\ lastProgress' =
                       progressPercent(processedCount + 1, framesToProcess).v
           ELSE UNCHANGED <<processedCount, lastProgress>>
    /\ loopAt(frameIndex + 1, framesToProcess)
    /\ UNCHANGED <<frameRateHalves, maxFrames, duration, framesToProcess,
                   besidesVideo>>

NextVideo ==
    \/ VideoLoaded
    \/ VideoModelSettles
    \/ FrameSeeked
    \/ FrameDetected

SpecVideo == InitVideo /\ [][NextVideo]_vars

\* the browser and the detector do what they have been asked to
SpecVideoFair ==
    /\ SpecVideo
    /\ WF_vars(VideoLoaded)
    /\ WF_vars(VideoModelSettles)
    /\ WF_vars(FrameSeeked)
    /\ WF_vars(FrameDetected)

-----------------------------------------------------------------------------
(* applyCompositeEnhancement and applyHistogramEqualization, imageUtils.ts *)
(* one statement at a time.  A statement creates an OpenCV object (and     *)
(* may push it on matsToDelete), calls into OpenCV, or deletes an object;  *)
(* creating and calling may throw.                                         *)

Create(obj) == [op |-> "create", obj |-> obj, pushed |-> FALSE]
CreatePushed(obj) == [op |-> "create", obj |-> obj, pushed |-> TRUE]
CvCall(name) == [op |-> "call", obj |-> name, pushed |-> FALSE]
Delete(obj) == [op |-> "delete", obj |-> obj, pushed |-> FALSE]

\* the try block of applyCompositeEnhancement, lines 120-173
compositeStatements ==
    << CreatePushed("src"), CreatePushed("bgr"), CreatePushed("lab"),
       CreatePushed("labPlanes"), CreatePushed("enhancedBgr"),
       CreatePushed("gammaCorrectedBgr"), CreatePushed("finalRgb"),
       CvCall("cvtColor RGBA2BGR"), CvCall("cvtColor BGR2Lab"),
       CvCall("split"), Create("l_channel"), Create("clahe"),
       CvCall("clahe.apply"), Delete("clahe"), CvCall("labPlanes.set"),
       CvCall("merge"), CvCall("cvtColor Lab2BGR"), Delete("l_channel"),
       CvCall("create"), CvCall("applyLutManual"),
       CvCall("cvtColor BGR2RGB"), CvCall("matToUrl") >>

\* the try block of applyHistogramEqualization, lines 197-222
histogramStatements ==
    << CreatePushed("src"), CreatePushed("rgb"), CreatePushed("yuv"),
       CreatePushed("yuvPlanes"), CreatePushed("result"),
       CvCall("cvtColor RGBA2RGB"), CvCall("cvtColor RGB2YUV"),
       CvCall("split"), Create("y_channel"), CvCall("equalizeHist"),
       CvCall("yuvPlanes.set"), CvCall("merge"), CvCall("cvtColor YUV2RGB"),
       Delete("y_channel"), CvCall("matToUrl") >>

statementsOf(f) ==
    IF f = "composite" THEN compositeStatements ELSE histogramStatements

CvObjects == {"src", "bgr", "lab", "labPlanes", "enhancedBgr",
              "gammaCorrectedBgr", "finalRgb", "l_channel", "clahe",
              "rgb", "yuv", "yuvPlanes", "result", "y_channel"}

InitEnhance ==
    /\ PipelineIdle
    /\ FeaturesIdle
    /\ AnalyzersIdle
    /\ KeypointsIdle
    /\ ImprovementIdle
    /\ TrainerIdle
    /\ StreamIdle
    /\ NmsIdle
    /\ AppIdle
    /\ VideoIdle
    /\ CompareIdle
    /\ SplitIdle
    /\ filter \in {"composite", "histogram"}
    /\ statement = 1
    /\ allocated = {}
    /\ deletes = [o \in CvObjects |-> 0]
    /\ matsToDelete = <<>>
    /\ exit = "running"
    /\ outputUrl = FALSE

\* the next statement of the try block runs: it throws (control goes to
\* the finally block, in the composite filter through the catch that
\* rethrows), or it does its work; after the last one the URL is the
\* value to return and the finally block runs
ExecuteStatement ==
    /\ exit = "running"
    /\ LET st == statementsOf(filter)[statement]
           last == statement = Len(statementsOf(filter))
       IN \E throws \in BOOLEAN :
              IF throws /\ st.op # "delete"
              THEN /\ exit' = "finally after throw"
                   /\ statement' = 1
                   /\ UNCHANGED <<allocated, deletes, matsToDelete>>
              ELSE /\ allocated' = IF st.op = "create"
                                   THEN allocated \cup {st.obj} ELSE allocated
                   /\ matsToDelete' = IF st.pushed
                                      THEN Append(matsToDelete, st.obj)
                                      ELSE matsToDelete
                   /\ deletes' = IF st.op = "delete"
                                 THEN [deletes EXCEPT ![st.obj] = @ + 1]
                                 ELSE deletes
                   /\ exit' = IF last THEN "finally after return" ELSE "running"
                   /\ statement' = IF last THEN 1 ELSE statement + 1
    /\ UNCHANGED <<filter, outputUrl, besidesEnhance>>

\* matsToDelete.forEach(m => m.delete()): the next element
FinallyDelete ==
    /\ exit \in {"finally after throw", "finally after return"}
    /\ statement <= Len(matsToDelete)
    /\ deletes' = [deletes EXCEPT ![matsToDelete[statement]] = @ + 1]
    /\ statement' = statement + 1
    /\ UNCHANGED <<filter, allocated, matsToDelete, exit, outputUrl,
                   besidesEnhance>>

\* the finally block is done: the function returns the URL or the
\* exception goes on to the caller
LeaveFunction ==
    /\ exit \in {"finally after throw", "finally after return"}
    /\ statement > Len(matsToDelete)
    /\ exit' = IF exit = "finally after return" THEN "returned" ELSE "threw"
    /\ outputUrl' = (exit = "finally after return")
    /\ UNCHANGED <<filter, statement, allocated, deletes, matsToDelete,
                   besidesEnhance>>

NextEnhance ==
    \/ ExecuteStatement
    \/ FinallyDelete
    \/ LeaveFunction

SpecEnhance == InitEnhance /\ [][NextEnhance]_vars

-----------------------------------------------------------------------------
(* StepPipelineComparison, components/StepPipelineComparison.tsx: the      *)
(* effect on imageUrl starts executePipeline, whose continuation after the *)
(* await of runPipeline sets the component's state whichever imageUrl the  *)
(* component shows by then.                                                *)

MaxUrls == 2
Urls == 1 .. MaxUrls
MaxPipelineRuns == 3

\* a call of executePipeline: the n-th one, made for the URL url
PipelineRun(n, url) == [isSet |-> TRUE, id |-> n, url |-> url]

\* the component mounts with the useState initial values; its effect has
\* yet to run
InitCompare ==
    /\ PipelineIdle
    /\ FeaturesIdle
    /\ AnalyzersIdle
    /\ KeypointsIdle
    /\ ImprovementIdle
    /\ TrainerIdle
    /\ StreamIdle
    /\ NmsIdle
    /\ AppIdle
    /\ VideoIdle
    /\ EnhanceIdle
    /\ SplitIdle
    /\ imageUrl \in Urls
    /\ effectUrl = 0
    /\ processing = FALSE
    /\ pipelineProgress = 0
    /\ displayedResult = NoValue
    /\ displayedError = NoValue
    /\ inFlight = {}
    /\ pipelineRuns = 0

\* the effect runs after the mount and after each render with another
\* imageUrl: executePipeline runs up to its await
ExecutePipeline ==
    /\ effectUrl # imageUrl
    /\ pipelineRuns < MaxPipelineRuns
    /\ effectUrl' = imageUrl
    /\ pipelineRuns' = pipelineRuns + 1
    /\ processing' = TRUE
    /\ displayedError' = NoValue
    /\ pipelineProgress' = 0
    /\ inFlight' = inFlight \cup {PipelineRun(pipelineRuns + 1, imageUrl)}
    /\ UNCHANGED <<imageUrl, displayedResult>>
    /\ UNCHANGED besidesCompare

\* the parent renders the component with another imageUrl
ImageUrlChanges ==
    /\ effectUrl = imageUrl
    /\ pipelineRuns < MaxPipelineRuns
    /\ \E url \in Urls \ {imageUrl} : imageUrl' = url
    /\ UNCHANGED <<effectUrl, processing, pipelineProgress, displayedResult,
                   displayedError, inFlight, pipelineRuns>>
    /\ UNCHANGED besidesCompare

\* runPipeline calls the progress callback of a call in flight
PipelineProgresses ==
    /\ effectUrl = imageUrl
    /\ \E run \in inFlight : pipelineProgress' = run.id
    /\ UNCHANGED <<imageUrl, effectUrl, processing, displayedResult,
                   displayedError, inFlight, pipelineRuns>>
    /\ UNCHANGED besidesCompare

\* runPipeline resolves for a call in flight: setResult, then the finally
\* block
PipelineResolves ==
    /\ effectUrl = imageUrl
    /\ \E run \in inFlight :
           /\ displayedResult' = run
           /\ inFlight' = inFlight \ {run}
    /\ processing' = FALSE
    /\ UNCHANGED <<imageUrl, effectUrl, pipelineProgress, displayedError,
                   pipelineRuns>>
    /\ UNCHANGED besidesCompare

\* runPipeline rejects for a call in flight: the catch block, then the
\* finally block
PipelineRejects ==
    /\ effectUrl = imageUrl
    /\ \E run \in inFlight :
           /\ displayedError' = run
           /\ inFlight' = inFlight \ {run}
    /\ processing' = FALSE
    /\ UNCHANGED <<imageUrl, effectUrl, pipelineProgress, displayedResult,
                   pipelineRuns>>
    /\ UNCHANGED besidesCompare

NextCompare ==
    \/ ExecutePipeline
    \/ ImageUrlChanges
    \/ PipelineProgresses
    \/ PipelineResolves
    \/ PipelineRejects

SpecCompare == InitCompare /\ [][NextCompare]_vars

-----------------------------------------------------------------------------
(* splitDataset, services/datasetLoader.ts: the images are sorted by the   *)
(* sum of the character codes of their id and cut in three at trainEnd     *)
(* and valEnd.  A ratio is a number of hundredths.                         *)

RatioScale == 100

\* a.id.split('').reduce((acc, char) => acc + char.charCodeAt(0), 0)
RECURSIVE idHash(_)
idHash(id) == IF id = <<>> THEN 0 ELSE Head(id) + idHash(Tail(id))

\* [...dataset.images].sort((a, b) => hashA - hashB): ascending, images of
\* equal hash keep their order
RECURSIVE sortByHash(_)
sortByHash(imgs) ==
    IF imgs = <<>> THEN <<>>
    ELSE LET rest == sortByHash(Tail(imgs))
             ahead == { k \in 1..Len(rest) :
                          idHash(rest[k].id) < idHash(Head(imgs).id) }
             n == Cardinality(ahead)
         IN SubSeq(rest, 1, n) \o <<Head(imgs)>> \o SubSeq(rest, n + 1, Len(rest))

\* Array.prototype.slice(start, end) for start, end >= 0: both are clipped
\* to the length, and nothing is taken when end <= start
slice(arr, start, end) ==
    LET from == Min(start, Len(arr))
        to == Min(end, Len(arr))
    IN IF from < to THEN SubSeq(arr, from + 1, to) ELSE <<>>

\* Math.floor(shuffled.length * trainRatio)
trainEndOf(n, train) == (n * train) \div RatioScale

\* a valEnd that is not counted from trainEnd
valEndFromStart(n, train, val) == (n * val) \div RatioScale

\* trainEnd + Math.floor(shuffled.length * valRatio)
valEndOf(n, train, val) == trainEndOf(n, train) + (n * val) \div RatioScale

splitDataset(imgs, train, val, test) ==
    LET shuffled == sortByHash(imgs)
        trainEnd == trainEndOf(Len(shuffled), train)
        valEnd == valEndOf(Len(shuffled), train, val)
    IN [isSet |-> TRUE,
        train |-> slice(shuffled, 0, trainEnd),
        val |-> slice(shuffled, trainEnd, valEnd),
        test |-> slice(shuffled, valEnd, Len(shuffled))]

MaxDatasetImages == 3

\* images whose ids are given by their character codes: "a", "b", "ab",
\* "ba" (the hash of "ab") and the one character of code 195 (that hash)
DatasetImages ==
    { [id |-> <<97>>], [id |-> <<98>>], [id |-> <<97, 98>>],
      [id |-> <<98, 97>>], [id |-> <<195>>] }

\* the datasets: up to MaxDatasetImages different images, in any order
Datasets ==
    UNION { { d \in [1..n -> DatasetImages] :
                \A i, j \in 1..n : d[i] = d[j] => i = j } :
            n \in 0..MaxDatasetImages }

\* ratios from 0 to more than 1, the defaults 0.7 and 0.15 among them
Ratios == {0, 15, 34, 50, 70, 100, 150}

InitSplit ==
    /\ PipelineIdle
    /\ FeaturesIdle
    /\ AnalyzersIdle
    /\ KeypointsIdle
    /\ ImprovementIdle
    /\ TrainerIdle
    /\ StreamIdle
    /\ NmsIdle
    /\ AppIdle
    /\ VideoIdle
    /\ EnhanceIdle
    /\ CompareIdle
    /\ dataset \in Datasets
    /\ trainRatio \in Ratios
    /\ valRatio \in Ratios
    /\ testRatio \in {0, 15}
    /\ splits = NoValue
    /\ splitsAgain = NoValue

\* splitDataset(dataset, trainRatio, valRatio, testRatio)
SplitDataset ==
    /\ ~splits.isSet
    /\ splits' = splitDataset(dataset, trainRatio, valRatio, testRatio)
    /\ UNCHANGED <<dataset, trainRatio, valRatio, testRatio, splitsAgain>>
    /\ UNCHANGED besidesSplit

\* a second call with the same arguments
SplitDatasetAgain ==
    /\ splits.isSet
    /\ ~splitsAgain.isSet
    /\ splitsAgain' = splitDataset(dataset, trainRatio, valRatio, testRatio)
    /\ UNCHANGED <<dataset, trainRatio, valRatio, testRatio, splits>>
    /\ UNCHANGED besidesSplit

NextSplit ==
    \/ SplitDataset
    \/ SplitDatasetAgain

SpecSplit == InitSplit /\ [][NextSplit]_vars

-----------------------------------------------------------------------------
(* Properties of runPipeline *)

EventsOf(l) == SelectSeq(l, LAMBDA e : e.kind = "event")
Has(l, e) == \E i \in 1..Len(l) : l[i] = e
HasBefore(l, e, i) == \E j \in 1..(i - 1) : l[j] = e
Resolved(l, op, i) == HasBefore(l, Done(op), i) \/ HasBefore(l, Fail(op), i)
Finished == pc \in {"resolved", "rejected"}
HasResult == "comparison" \in DOMAIN result

\* every stage of the run succeeded, with feature results that are not null
AllStagesSucceeded ==
    /\ Has(log, Done("waitForOpenCV"))
    /\ Has(log, Done("loadImage"))
    /\ Has(log, Done("applyCompositeEnhancement"))
    /\ Has(log, Done("extractRaw")) /\ ~rawFeatures.isNull
    /\ Has(log, Done("extractEnhanced")) /\ ~enhancedFeatures.isNull
    /\ Has(log, Done("loadModel"))
    /\ Has(log, Done("detectRaw"))
    /\ Has(log, Done("detectEnhanced"))

\* C1: when OpenCV is ready and loading, enhancement, both feature
\* extractions (non-null results) and both detector calls succeed, the run
\* ends resolved with a result holding the comparison block, and the observer
\* has received the 'complete' event.
C1_SuccessfulRunResolves ==
    (AllStagesSucceeded /\ Finished) =>
        /\ pc = "resolved"
        /\ HasResult
        /\ observer => Has(log, [kind |-> "event", name |-> "complete",
                                 progress |-> 100, image |-> "null"])

\* C2: a run that returns a result has delivered exactly the seven documented
\* events, in order, with non-decreasing progress ending at 100.
C2_SevenEventsInOrder ==
    (pc = "resolved" /\ observer) =>
        LET ev == EventsOf(log)
        IN /\ Len(ev) = 7
           /\ [i \in 1..7 |-> <<ev[i].name, ev[i].progress, ev[i].image>>] =
                  << <<"enhancement", 10, "null">>,
                     <<"feature_extraction", 30, "raw">>,
                     <<"feature_extraction", 50, "enhanced">>,
                     <<"detection", 60, "raw">>,
                     <<"detection", 80, "enhanced">>,
                     <<"comparison", 90, "null">>,
                     <<"complete", 100, "null">> >>
           /\ \A i \in 1..6 : ev[i].progress <= ev[i + 1].progress
           /\ ev[7].progress = 100

C2_Witness == pc = "resolved" /\ observer /\ Len(EventsOf(log)) = 7

\* C3: a stage that fails ends the run: the failure is the last thing the run
\* did, the promise is rejected and no result exists (so no later event, no
\* later call and no default value standing in for the failed stage).
C3_FailureAbortsRun ==
    \A i \in 1..Len(log) :
        log[i].kind = "fail" =>
            /\ i = Len(log)
            /\ pc = "rejected"
            /\ ~HasResult

\* C4: overallImprovement = 0.3 keypoints% + 0.2 texture% + 0.2 quality%
\* + 0.3 (mAP improvement x 100), the mAP improvement being the [0,1]
\* difference of the two mAP values (both sides times 10).
C4_OverallImprovementFormula ==
    pc = "resolved" =>
        LET c == result.comparison
            mAPImprovement ==
                result.enhanced.metrics.mAP - result.raw.metrics.mAP
        IN c.overallImprovement10 =
               3 * c.featureImprovement.keypoints
             + 2 * c.featureImprovement.texture
             + 2 * c.featureImprovement.quality
             + 3 * (mAPImprovement * 100)

\* the progress value of the stage a call belongs to
StageProgressOf(op) ==
    CASE op \in {"waitForOpenCV", "loadImage", "applyCompositeEnhancement"} -> 10
      [] op = "extractRaw" -> 30
      [] op = "extractEnhanced" -> 50
      [] op \in {"loadModel", "detectRaw"} -> 60
      [] op = "detectEnhanced" -> 80
      [] op \in {"calculateMetrics", "calculateFeatureImprovement"} -> 90

\* C5: every piece of work the run starts is preceded in the log by the
\* progress event of its stage.
C5_EventBeforeWork ==
    observer =>
        \A i \in 1..Len(log) :
            log[i].kind = "call" =>
                \E j \in 1..(i - 1) :
                    /\ log[j].kind = "event"
                    /\ log[j].progress = StageProgressOf(log[i].name)

C5_Witness ==
    /\ observer
    /\ pc = "resolved"
    /\ Has(log, Call("calculateFeatureImprovement"))

\* C6: while no load has failed at most one cocoSsd.load() is ever started,
\* whatever the interleaving of loadModel() and detect() calls; and once the
\* model is loaded no step reloads it, replaces it, or sets isLoading, and no
\* call starts loading or waiting.
C6_LoadModelIdempotent ==
    /\ [](~loadFailed => loadsStarted <= 1)
    /\ [][model # 0 =>
            /\ model' = model
            /\ loadsStarted' = loadsStarted
            /\ ~isLoading'
            /\ \A c \in Clients :
                   lm'[c] \in {"loading", "waiting"} => lm'[c] = lm[c]]_vars

C6_Witness ==
    /\ model # 0
    /\ loadsStarted = 1
    /\ ~loadFailed
    /\ pc = "detectRaw"
    /\ \A c \in Callers : calls[c] = MaxCalls /\ lm[c] = "returned"

\* C7: the detection-enhanced event and the detect call on the enhanced
\* image come only after the detect call on the raw image has resolved, and
\* the comparison stage only after both detect calls have resolved.
C7_DetectCallsAwaited ==
    \A i \in 1..Len(log) :
        /\ (\/ (log[i].kind = "event" /\ log[i].progress = 80)
            \/ log[i] = Call("detectEnhanced"))
               => Resolved(log, "detectRaw", i)
        /\ (\/ (log[i].kind = "event" /\ log[i].progress = 90)
            \/ log[i] = Call("calculateMetrics")
            \/ log[i] = Call("calculateFeatureImprovement"))
               => Resolved(log, "detectRaw", i) /\ Resolved(log, "detectEnhanced", i)

C7_Witness ==
    /\ pc = "comparison"
    /\ Has(log, Done("detectRaw"))
    /\ Has(log, Done("detectEnhanced"))

\* C8: no step of the run is invoked twice, and after a failure no step
\* that was already invoked is invoked again.
C8_NoRetries ==
    /\ \A i, j \in 1..Len(log) :
           (i < j /\ log[i].kind = "call" /\ log[j].kind = "call")
               => log[i].name # log[j].name
    /\ \A i, j \in 1..Len(log) :
           (i < j /\ log[i].kind = "fail" /\ log[j].kind = "call")
               => ~HasBefore(log, log[j], j)

C8_Witness ==
    /\ pc = "rejected"
    /\ error = "detection error"
    /\ Has(log, Fail("detectEnhanced"))
    /\ Has(log, Call("applyCompositeEnhancement"))

-----------------------------------------------------------------------------
(* Properties of feature extraction *)

\* call i of extractComprehensiveFeatures has resolved with a result
Extracted(i) == "featureVector" \in DOMAIN features[i]

\* C9: the fused feature vector has the same dimensionality for every image,
\* whatever its width and height: the texture part always holds 20 HOG
\* values, 20 LBP bins and 3 GLCM values.
C9_SameDimensionalityForEveryImage ==
    \A i, j \in ImageIds :
        Extracted(i) /\ Extracted(j) =>
            /\ Len(features[i].featureVector.texture) = hogSlice + lbpSlice + 3
            /\ features[i].featureVector.dimensionality
                   = features[j].featureVector.dimensionality

\* C10: for every FeatureVector returned by constructFeatureVector,
\* dimensionality = length(fused) = length(keypoints) + length(texture)
\* + length(statistical), and fused lists the keypoint, texture and
\* statistical entries in that order (each divided by the common norm).
C10_DimensionalityAndOrder ==
    \A i \in ImageIds :
        Extracted(i) =>
            LET fv == features[i].featureVector
                entries == fv.keypoints \o fv.texture \o fv.statistical
                norm == L2Norm(entries)
            IN /\ fv.dimensionality = Len(fv.fused)
               /\ Len(fv.fused) = Len(fv.keypoints) + Len(fv.texture)
                                      + Len(fv.statistical)
               /\ \A k \in 1..Len(entries) :
                      fv.fused[k] = IF norm = 0 THEN 0
                                    ELSE (entries[k] * FusedScale) \div norm

C10_Witness ==
    \E i \in ImageIds :
        /\ Extracted(i)
        /\ Len(features[i].featureVector.texture) = hogSlice + lbpSlice + 3
        /\ features[i].featureVector.dimensionality > 3 + hogSlice + lbpSlice + 3
        /\ \E k \in 1..Len(features[i].featureVector.fused) :
               features[i].featureVector.fused[k] > 0

-----------------------------------------------------------------------------
(* Properties of the analysers *)

AllFinite(numbers) == \A i \in DOMAIN numbers : IsFinite(numbers[i])

\* the fractions of the histogram h sum to 1 within 1e-6
HistogramSumsToOne(h) ==
    /\ \A v \in DOMAIN h : h[v].den = h[0].den
    /\ Abs(h[0].den - SumFn([v \in DOMAIN h |-> h[v].num], 0, patterns - 1))
           <= h[0].den \div Million

\* the fractions of the matrix m, given by its nonzero entries, sum to 1
\* within 1e-6
MatrixSumsToOne(m) ==
    /\ DOMAIN m # {}
    /\ \A c \in DOMAIN m, d \in DOMAIN m : m[c].den = m[d].den
    /\ LET den == m[CHOOSE c \in DOMAIN m : TRUE].den
           Num == [c \in DOMAIN m |-> m[c].num]
       IN Abs(den - CellSum(DOMAIN m, Num, 0, levels * levels - 1))
              <= den \div Million

\* C11: the quality, keypoint, texture and statistical analysers are total
\* on every well-formed image, tiny ones included: no division has a zero
\* denominator and every output is a finite number.
C11_AnalyzersTotal ==
    /\ Measured(1) => AllFinite(measured.keypoints.counts)
    /\ Measured(2) => \A v \in DOMAIN measured.lbp.histogram :
                          measured.lbp.histogram[v].den # 0
    /\ Measured(3) => AllFinite(measured.glcm.features)
    /\ Measured(4) =>
           /\ AllFinite(measured.statistical.huMoments)
           /\ AllFinite(measured.statistical.colorMoments.mean)
           /\ AllFinite(measured.statistical.colorMoments.std)
           /\ AllFinite(measured.statistical.colorMoments.skewness)
    /\ Measured(5) => AllFinite(measured.quality)

\* C16: for any image with at least one interior pixel, computeLBP adds
\* exactly one count to exactly one of the 256 bins per interior pixel, so
\* the normalised histogram sums to 1 within 1e-6.
C16_LBPHistogramSumsToOne ==
    Measured(2) /\ sample.width >= 3 /\ sample.height >= 3 =>
        /\ DOMAIN measured.lbp.counts = 0..255
        /\ SumFn(measured.lbp.counts, 0, 255)
               = (sample.width - 2) * (sample.height - 2)
        /\ HistogramSumsToOne(measured.lbp.histogram)

C16_Witness ==
    /\ Measured(2)
    /\ sample.width = 8 /\ sample.height = 5
    /\ Cardinality({v \in 0..255 : measured.lbp.counts[v] > 0}) > 1

\* C17: for every image the normalised co-occurrence matrix of computeGLCM
\* sums to 1 within 1e-6, and homogeneity and energy lie in [0, 1].
C17_GLCMSumsToOne ==
    Measured(3) =>
        /\ MatrixSumsToOne(measured.glcm.matrix)
        /\ IsFinite(measured.glcm.features.homogeneity)
        /\ measured.glcm.features.homogeneity.v \in 0..QualityScale
        /\ IsFinite(measured.glcm.features.energy)
        /\ measured.glcm.features.energy.v \in 0..QualityScale

\* C18: on a flat image (all pixels 128) brightness is 128, contrast,
\* sharpness, complexity and edgeDensity are 0, all interior pixels fall in
\* one LBP bin (code 0 or 255), and GLCM homogeneity and energy are 1.
C18_FlatImage ==
    sample.content = "flat" =>
        /\ Measured(1) =>
               /\ measured.keypoints.complexity = Finite(0)
               /\ measured.keypoints.edgeDensity = Finite(0)
        /\ Measured(2) =>
               \E v \in {0, 255} : \A u \in 0..255 :
                   u # v => measured.lbp.counts[u] = 0
        /\ Measured(3) =>
               /\ measured.glcm.features.homogeneity = Finite(QualityScale)
               /\ measured.glcm.features.energy = Finite(QualityScale)
        /\ Measured(5) =>
               /\ measured.quality.brightness = Finite(128 * QualityScale)
               /\ measured.quality.contrast = Finite(0)
               /\ measured.quality.sharpness = Finite(0)

\* the floor of (base + perComplexity * c + perEdge * e), c and e in units
\* of 1/MeasureScale
FloorOfAffine(base, perComplexity, perEdge) ==
    (base * MeasureScale + perComplexity * imageComplexity
         + perEdge * imageEdgeDensity) \div MeasureScale

Delivered(r) == r \in completed /\ progressCalls[r] = Epochs

\* C19: a train() call made after a stop() delivers a progress callback for
\* every epoch and eventually the completion callback, unless it is stopped
\* in its turn.
C19_TrainAfterStopCompletes ==
    \A r \in 1..MaxRuns :
        (r \in afterStop) ~> (Delivered(r) \/ r \in stopped)

\* C20: after the stop function returned by detectInVideoStream has been
\* called, no further detector call is started, and onFrameDetected and
\* onProgress are not invoked for a frame whose processing began after it.
C20_StopStopsDetection ==
    /\ callsAfterStop = {}
    /\ reported \cap callsAfterStop = {}

\* C15: each keypoint count is the floor of an affine function of complexity
\* and edgeDensity (orb = floor(30 + 250c + 100e), fast = floor(80 + 400c +
\* 150e), sift = floor(20 + 180c + 80e)); for c, e >= 0 each count is a
\* non-negative integer, non-decreasing in both c and e.
C15_KeypointCountsAffineMonotone ==
    /\ [](/\ keypointStats.orb = Finite(FloorOfAffine(30, 250, 100))
          /\ keypointStats.fast = Finite(FloorOfAffine(80, 400, 150))
          /\ keypointStats.sift = Finite(FloorOfAffine(20, 180, 80))
          /\ \A k \in {"orb", "fast", "sift"} : keypointStats[k].v \in Nat)
    /\ [][\A k \in {"orb", "fast", "sift"} :
              keypointStats'[k].v >= keypointStats[k].v]_vars

C15_Witness ==
    /\ imageComplexity > GridStep
    /\ imageEdgeDensity > GridStep
    /\ keypointStats.orb.v > 30
    /\ keypointStats.fast.v > 80
    /\ keypointStats.sift.v > 20

-----------------------------------------------------------------------------
(* Properties of the comparison *)

Compared == "vectors" \in DOMAIN comparison

\* C13: comparing two feature vectors whose fused vectors have different
\* lengths, or either of which is empty, fails with a ComparisonError
\* instead of returning similarity and distance values.
C13_MismatchedVectorsFail ==
    /\ Compared
    /\ \/ Len(features[1].featureVector.fused) # Len(features[2].featureVector.fused)
       \/ Len(features[1].featureVector.fused) = 0
       \/ Len(features[2].featureVector.fused) = 0
    => comparison.vectors.error = "ComparisonError"

\* C14: comparing a feature set with itself is neutral: similarity 1,
\* euclideanDistance 0, zero keypoint, texture and statistical changes, and
\* keypoint, texture and quality improvement percentages of 0.
C14_SelfComparisonNeutral ==
    Compared /\ features[1] = features[2] =>
        /\ comparison.vectors.similarity = SimilarityScale
        /\ comparison.vectors.euclideanDistance = 0
        /\ \A i \in DOMAIN comparison.vectors.changes.keypointChange :
               comparison.vectors.changes.keypointChange[i] = 0
        /\ comparison.vectors.changes.textureChange = 0
        /\ comparison.vectors.changes.statisticalChange = 0
        /\ ~comparison.improvement.threw
        /\ comparison.improvement.keypoints = 0
        /\ comparison.improvement.texture = 0
        /\ comparison.improvement.quality = 0

-----------------------------------------------------------------------------
(* Properties of ObjectDetector.loadModel, continued *)

\* C23: every loadModel() call that has returned without throwing leaves the
\* model loaded, a call that waited for another caller's load included.
C23_ReturnedMeansLoaded ==
    \A c \in Clients : lm[c] = "returned" => model # 0

-----------------------------------------------------------------------------
(* Properties of applyNMS *)

NonIncreasingConfidence(s) ==
    \A a, b \in 1..Len(s) : a < b => s[a].confidence >= s[b].confidence

\* C22: the list applyNMS returns is a sub-list of its input ordered by
\* non-increasing confidence, no two of its boxes of the same class overlap
\* by more than the threshold, and every dropped box is overlapped by more
\* than the threshold by a kept box of its class that is at least as
\* confident.
C22_NMSKeepsAndDrops ==
    selected # NoValue =>
        \E p \in [1..Len(inputBoxes) -> 1..Len(inputBoxes)] :
            LET order == [a \in 1..Len(inputBoxes) |-> inputBoxes[p[a]]]
                out == selected.boxes
            IN /\ \A a, b \in 1..Len(inputBoxes) : a # b => p[a] # p[b]
               /\ NonIncreasingConfidence(out)
               /\ \E keep \in SUBSET (1..Len(order)) :
                      /\ Len(out) = Cardinality(keep)
                      /\ \A k \in keep :
                             out[Cardinality({m \in keep : m <= k})] = order[k]
                      /\ \A a, b \in keep :
                             (a # b /\ order[a].class = order[b].class)
                                 => ~aboveThreshold(
                                        calculateIoU(order[a], order[b]))
                      /\ \A d \in (1..Len(order)) \ keep :
                             \E k \in keep :
                                 /\ order[k].class = order[d].class
                                 /\ order[k].confidence >= order[d].confidence
                                 /\ aboveThreshold(
                                        calculateIoU(order[k], order[d]))

\* a middle box was dropped and, being dropped, did not suppress its other
\* neighbour: three boxes of one class came in, two went out
C22_Witness ==
    /\ selected # NoValue
    /\ Len(inputBoxes) = 3
    /\ Len(selected.boxes) = 2
    /\ \A a, b \in 1..3 : inputBoxes[a].class = inputBoxes[b].class
    /\ \A a, b \in 1..3 : a # b => inputBoxes[a].x # inputBoxes[b].x
    /\ \A k \in 1..2 : selected.boxes[k].x # 2

-----------------------------------------------------------------------------
(* Properties of App *)

\* C21: once handlePipelineSelected has made PIPELINE the current step, the
\* step stays PIPELINE until the user navigates (header, back or forward)
\* or resets.
C21_PipelineStepStays ==
    [][(currentStep = "PIPELINE" /\ currentStep' # "PIPELINE")
           => lastEvent'.kind \in {"header", "popstate", "reset"}]_vars

\* the step meets what it needs: PROCESS an image, the later steps a result
StepHasItsInputs(step) ==
    /\ step = "PROCESS" => originalImages > 0
    /\ step \in requiresResult => Len(selectedResults) > 0

C24_SelectedListMatchesCards ==
    StepProcessShown =>
        /\ Len(selectedResults) = Cardinality(selectedResultIds)
        /\ {selectedResults[k] : k \in 1..Len(selectedResults)}
               = selectedResultIds

-----------------------------------------------------------------------------
(* Properties of detectInVideo *)

\* C25: the promise returned by detectInVideo eventually settles, and when
\* it has resolved no more frames were processed than framesToProcess and
\* no progress above 100 was reported.
C25_DetectInVideoSettles ==
    /\ <>(videoPc \in {"resolved", "rejected"})
    /\ [](videoPc = "resolved" =>
              /\ IsFinite(framesToProcess) => processedCount <= framesToProcess.v
              /\ lastProgress <= 100)

-----------------------------------------------------------------------------
(* Properties of the enhancement filters *)

\* C26: when applyCompositeEnhancement or applyHistogramEqualization has
\* returned or thrown, every OpenCV object it created has been deleted
\* exactly once, and after a throw no URL was returned.
C26_EveryObjectDeletedOnce ==
    exit \in {"returned", "threw"} =>
        /\ \A o \in CvObjects :
               deletes[o] = (IF o \in allocated THEN 1 ELSE 0)
        /\ exit = "threw" => ~outputUrl

\* C27: once no pipeline run is in flight, what StepPipelineComparison
\* displays (the error if there is one, else the result) was computed by
\* the run made for the latest imageUrl, and the processing indicator is on
\* while a run for the current imageUrl is in flight.
C27_LatestRunIsDisplayed ==
    effectUrl = imageUrl =>
        /\ (inFlight = {} /\ pipelineRuns > 0) =>
               LET shown == IF displayedError.isSet THEN displayedError
                            ELSE displayedResult
               IN shown.isSet /\ shown.id = pipelineRuns
        /\ (\E run \in inFlight : run.url = imageUrl) => processing

\* the images of a sequence
ImagesOf(imgs) == { imgs[k] : k \in 1..Len(imgs) }

\* every image of the dataset is in exactly one of the three splits
SplitsPartition(sp) ==
    /\ ImagesOf(sp.train) \cup ImagesOf(sp.val) \cup ImagesOf(sp.test)
           = ImagesOf(dataset)
    /\ Len(sp.train) + Len(sp.val) + Len(sp.test) = Len(dataset)

\* val has floor(n * valRatio) images as far as images remain after train,
\* test has the rest, and a second call returns the same splits
ValAndTestAsStated(sp) ==
    /\ Len(sp.val) = Min((Len(dataset) * valRatio) \div RatioScale,
                         Len(dataset) - Len(sp.train))
    /\ Len(sp.test) = Len(dataset) - Len(sp.train) - Len(sp.val)
    /\ splitsAgain.isSet => splitsAgain = sp

\* C29 as stated: splitDataset partitions the dataset, train has
\* floor(n * trainRatio) images, val has floor(n * valRatio) images as far
\* as images remain, test has the rest, and a second call returns the same
\* splits.
C29_SplitAsStated ==
    splits.isSet =>
        /\ SplitsPartition(splits)
        /\ Len(splits.train) = (Len(dataset) * trainRatio) \div RatioScale
        /\ ValAndTestAsStated(splits)

\* C29, amended: as C29, but train has floor(n * trainRatio) images only as
\* far as the dataset has that many: it has min(n, floor(n * trainRatio)).
C29_SplitPartitions ==
    splits.isSet =>
        /\ SplitsPartition(splits)
        /\ Len(splits.train) =
               Min((Len(dataset) * trainRatio) \div RatioScale, Len(dataset))
        /\ ValAndTestAsStated(splits)

\* a dataset of three images, two of them of equal hash, split twice with
\* a train ratio above 1
C29_Witness ==
    /\ splitsAgain.isSet
    /\ Len(dataset) = MaxDatasetImages
    /\ trainRatio > RatioScale
    /\ \E i, j \in 1..Len(dataset) :
           i # j /\ idHash(dataset[i].id) = idHash(dataset[j].id)

=============================================================================
